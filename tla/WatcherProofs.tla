---------------------------- MODULE WatcherProofs ----------------------------
(***************************************************************************)
(* What holds of the watcher for any files, contents, ignore rules and     *)
(* bounds: its types, and that it implements ChangeFeed.                   *)
(***************************************************************************)
EXTENDS Watcher, TLAPS

-----------------------------------------------------------------------------
(* Type correctness *)

LEMMA MergeType ==
  ASSUME NEW a \in ChangeSets, NEW b \in ChangeSets
  PROVE  Merge(a, b) \in ChangeSets /\ Paths(Merge(a, b)) = Paths(a) \cup Paths(b)
<1>1. \A f \in Files : Coalesced(a[f], b[f]) \in Kinds \cup {"none"}
  BY DEF ChangeSets, Kinds, Coalesced
<1>2. \A f \in Files : Coalesced(a[f], b[f]) # "none" <=> a[f] # "none" \/ b[f] # "none"
  BY DEF ChangeSets, Kinds, Coalesced
<1>3. QED
  BY <1>1, <1>2 DEF Merge, ChangeSets, Paths

LEMMA ReportedType ==
  ASSUME NEW c \in ChangeSets, NEW S
  PROVE  Reported(c, S) \in ChangeSets /\ Paths(Reported(c, S)) = Paths(c) \cup (S \cap Files)
BY DEF Reported, ChangeSets, Paths, Kinds

LEMMA NoChangeType == NoChange \in ChangeSets /\ Paths(NoChange) = {}
BY DEF NoChange, ChangeSets, Paths

LEMMA StampsType ==
  ASSUME TypeOK, NEW f \in Files, NEW content \in States \cup {Unread}, NEW doubt \in BOOLEAN,
         NEW kind \in Kinds \cup {"none"}, Stamps(f, content, doubt, kind)
  PROVE  TypeOK'
BY DEF Stamps, TypeOK, diskVars, intakeVars, logVars, sentVars, ChangeSets

LEMMA LookType ==
  ASSUME TypeOK, NEW f \in Files, LookAt(f)
  PROVE  TypeOK'
<1>t. /\ disk[f] \in States /\ seen[f] \in States \cup {Unread} /\ fresh[f] \in BOOLEAN
      /\ unsettled[f] \in BOOLEAN /\ young[f] \in BOOLEAN
  BY DEF TypeOK
<1>1. CASE Stat(f)
  <2>1. look' \in [Files -> {"none", "gone", "steady", "changed"}] /\ fresh' \in [Files -> BOOLEAN]
        /\ same' \in [Files -> BOOLEAN]
    BY ZenonT(60), <1>1, <1>t DEF Stat, TypeOK
  <2>2. QED
    BY <1>1, <2>1 DEF Stat, TypeOK, diskVars, intakeVars, logVars, snapshotVars, sentVars
<1>2. CASE Forget(f)
  BY <1>2, StampsType DEF Forget, States, Kinds
<1>3. CASE Admit(f)
  BY <1>3, <1>t, StampsType DEF Admit, States, Kinds
<1>4. CASE Trust(f)
  BY <1>4, <1>t, StampsType DEF Trust, Kinds
<1>5. CASE Hash(f)
  BY <1>5, <1>t, StampsType DEF Hash, Kinds
<1>6. CASE HashFails(f)
  BY <1>6, <1>t, StampsType DEF HashFails, Kinds
<1>7. QED
  BY <1>1, <1>2, <1>3, <1>4, <1>5, <1>6 DEF LookAt

LEMMA EndType ==
  ASSUME TypeOK, End
  PROVE  TypeOK'
<1> DEFINE changes == Reported(found, IF check \in FullChecks /\ sealed THEN repaired ELSE marked)
<1>1. changes \in ChangeSets
  BY ReportedType DEF TypeOK
<1>2. queue' \in ChangeSets /\ batch' \in ChangeSets
  BY <1>1, MergeType, NoChangeType DEF End, TypeOK
<1>3. known' \in SUBSET Files
  BY DEF End, TypeOK, Tracked
<1>4. QED
  BY <1>2, <1>3, NoChangeType DEF End, TypeOK, diskVars, intakeVars, FullChecks

LEMMA StartType ==
  ASSUME TypeOK, Starts
  PROVE  TypeOK'
<1> USE NoChangeType DEF TypeOK, Begins, NotYetLooked, diskVars, snapshotVars, sentVars, FullChecks
<1>1. CASE StartDirected
  BY <1>1 DEF StartDirected
<1>2. ASSUME NEW reason \in {"seed", "dirty", "request", "safety"}, StartFull(reason) PROVE TypeOK'
  BY <1>2 DEF StartFull
<1>3. ASSUME NEW kind \in {"poll", "verify"}, StartPoll(kind) PROVE TypeOK'
  BY <1>3 DEF StartPoll
<1>4. QED
  BY <1>1, <1>2, <1>3 DEF Starts

LEMMA EditType ==
  ASSUME TypeOK, NEW f \in Files, NEW c \in States, Edit(f, c)
  PROVE  TypeOK'
<1>1. edits' \in 0..MaxEdits /\ disk' \in [Files -> States]
  BY WatcherAssumption DEF Edit, TypeOK
<1>2. feed' \in SUBSET (Files \cup {Rules}) /\ overflow' \in BOOLEAN
  <2>1. Notify({f} \ Unwatched)
    BY DEF Edit
  <2>2. feed \in SUBSET (Files \cup {Rules}) /\ overflow \in BOOLEAN
    BY DEF TypeOK
  <2>3. QED
    BY <2>1, <2>2 DEF Notify
<1>3. young' \in [Files -> BOOLEAN] /\ same' \in [Files -> BOOLEAN]
  BY DEF Edit, TypeOK
<1>4. QED
  BY <1>1, <1>2, <1>3 DEF Edit, TypeOK, logVars, snapshotVars, checkVars, sentVars

LEMMA EditRulesType ==
  ASSUME TypeOK, NEW H \in SUBSET Hidable, EditRules(H)
  PROVE  TypeOK'
<1>1. edits' \in 0..MaxEdits
  BY WatcherAssumption DEF EditRules, TypeOK
<1>2. feed' \in SUBSET (Files \cup {Rules}) /\ overflow' \in BOOLEAN
  BY DEF EditRules, Notify, TypeOK
<1>3. QED
  BY <1>1, <1>2 DEF EditRules, TypeOK, logVars, snapshotVars, checkVars, sentVars

LEMMA TypeStep == TypeOK /\ [Next]_vars => TypeOK'
<1> SUFFICES ASSUME TypeOK, [Next]_vars PROVE TypeOK'
  OBVIOUS
<1>1. ASSUME NEW f \in Files, Age(f) PROVE TypeOK'
  BY <1>1 DEF Age, TypeOK, intakeVars, logVars, snapshotVars, checkVars, sentVars
<1>2. ASSUME NEW f \in Files, Repair(f) PROVE TypeOK'
  BY <1>2, WatcherAssumption DEF Repair, TypeOK, diskVars, intakeVars, snapshotVars, checkVars
<1>3. CASE FeedFails
  BY <1>3 DEF FeedFails, TypeOK, diskVars, logVars, snapshotVars, checkVars, sentVars
<1>4. CASE RequestVerification
  BY <1>4, WatcherAssumption DEF RequestVerification, TypeOK, intakeVars, snapshotVars, checkVars, sentVars
<1>5. CASE Drain
  <2>1. allDirty' \in BOOLEAN /\ (Rules \in pending' => allDirty')
    BY <1>5 DEF Drain, TypeOK
  <2>2. QED
    BY <1>5, <2>1 DEF Drain, TypeOK, diskVars, logVars, snapshotVars, checkVars, sentVars
<1>6. CASE ScanPanics
  BY <1>6 DEF ScanPanics, TypeOK, diskVars, logVars, snapshotVars, checkVars, sentVars
<1>7. CASE Take
  <2>1. known' \in SUBSET Files
    BY <1>7 DEF Take, Applied, TypeOK
  <2>2. QED
    BY <1>7, <2>1, NoChangeType DEF Take, TypeOK, diskVars, intakeVars, logVars, snapshotVars, checkVars
<1>8. CASE UNCHANGED vars
  BY <1>8 DEF TypeOK, vars, diskVars, intakeVars, logVars, snapshotVars, checkVars, sentVars
<1>9. QED
  BY <1>1, <1>2, <1>3, <1>4, <1>5, <1>6, <1>7, <1>8, EditType, EditRulesType, LookType, StartType,
     EndType DEF Next

LEMMA TypeInit == Init => TypeOK
<1> SUFFICES ASSUME Init PROVE TypeOK
  OBVIOUS
<1>1. edits \in 0..MaxEdits
  BY WatcherAssumption DEF Init
<1>2. /\ {young, same, unsettled, fresh} \subseteq [Files -> BOOLEAN]
      /\ look \in [Files -> {"none", "gone", "steady", "changed"}]
      /\ seen \in [Files -> States \cup {Unread}] /\ disk \in [Files -> States]
  BY DEF Init, States, NotYetLooked
<1>3. {found, batch, queue} \subseteq ChangeSets
  BY NoChangeType DEF Init
<1>4. QED
  BY <1>1, <1>2, <1>3 DEF Init, TypeOK, FullChecks

\* The watcher's state keeps its types, and an edited ignore rule that waits in the intake makes
\* the next check a full one (Intake::absorb).
THEOREM TypeCorrect == Spec => []TypeOK
<1>1. QED
  BY TypeInit, TypeStep, PTL DEF Spec

-----------------------------------------------------------------------------
(* The order of a check's steps *)

\* Between checks nothing of one is left; a file has one look in a check, and no report before it.
InOrder ==
    /\ check = "none" => todo = {} /\ look = NotYetLooked /\ found = NoChange
    /\ check # "directed" => marked = {}
    /\ ~sealed => check # "directed" /\ {found, batch, queue} = {NoChange}
    /\ \A f \in Files : f \in todo => look[f] = "none" /\ found[f] = "none"
    /\ \A f \in Files : look[f] # "none" => found[f] = "none"

LEMMA OrderStamps ==
  ASSUME TypeOK, InOrder, NEW f \in Files, NEW content, NEW doubt, NEW kind,
         look[f] # "none", Stamps(f, content, doubt, kind)
  PROVE  InOrder'
<1>1. /\ look' = [look EXCEPT ![f] = "none"] /\ look \in [Files -> {"none", "gone", "steady", "changed"}]
      /\ found' = [found EXCEPT ![f] = IF sealed THEN kind ELSE "none"] /\ found \in ChangeSets
      /\ UNCHANGED <<sealed, check, todo, marked, batch, queue>>
  BY DEF Stamps, TypeOK, sentVars
<1>2. check # "none"
  BY DEF InOrder, NotYetLooked
<1>3. ~sealed => found' = NoChange
  BY <1>1 DEF InOrder, NoChange, ChangeSets
<1>4. \A g \in Files : look'[g] = (IF g = f THEN "none" ELSE look[g])
                     /\ (g # f => found'[g] = found[g])
  BY <1>1 DEF ChangeSets
<1>5. f \notin todo
  BY DEF InOrder
<1>6. QED
  BY <1>1, <1>2, <1>3, <1>4, <1>5 DEF InOrder

LEMMA OrderStep == TypeOK /\ InOrder /\ [Next]_vars => InOrder'
<1> SUFFICES ASSUME TypeOK, InOrder, [Next]_vars PROVE InOrder'
  OBVIOUS
<1>e. ASSUME UNCHANGED <<sealed, check, todo, look, found, marked, batch, queue>> PROVE InOrder'
  BY <1>e DEF InOrder
<1>1. ASSUME NEW f \in Files, LookAt(f) PROVE InOrder'
  <2>1. CASE Stat(f)
    <3>1. /\ look' \in [Files -> {"none", "gone", "steady", "changed"}]
          /\ \A g \in Files : g # f => look'[g] = look[g]
      BY <2>1 DEF Stat, TypeOK
    <3>2. check # "none" /\ todo' = todo \ {f} /\ f \in todo
          /\ UNCHANGED <<sealed, check, found, marked, batch, queue>>
      BY <2>1 DEF Stat, InOrder, snapshotVars, sentVars
    <3>3. QED
      BY <3>1, <3>2 DEF InOrder
  <2>2. CASE Forget(f)
    BY <2>2, OrderStamps DEF Forget, MayRead
  <2>3. CASE Admit(f)
    BY <2>3, OrderStamps DEF Admit, MayRead
  <2>4. CASE Trust(f)
    BY <2>4, OrderStamps DEF Trust, MayRead
  <2>5. CASE Hash(f)
    BY <2>5, OrderStamps DEF Hash, Suspected, MayRead
  <2>6. CASE HashFails(f)
    BY <2>6, OrderStamps DEF HashFails, Suspected, MayRead
  <2>7. QED
    BY <1>1, <2>1, <2>2, <2>3, <2>4, <2>5, <2>6 DEF LookAt
<1>2. CASE Starts
  <2>1. /\ look' = NotYetLooked /\ found' = NoChange /\ UNCHANGED <<sealed, batch, queue>>
        /\ check' # "none"
        /\ check' # "directed" => marked' = {}
        /\ ~sealed => check' # "directed"
    BY <1>2 DEF Starts, StartDirected, StartFull, StartPoll, Begins, snapshotVars, sentVars
  <2>2. QED
    BY <2>1 DEF InOrder, NotYetLooked, NoChange
<1>3. CASE End
  <2>1. /\ check' = "none" /\ todo' = {} /\ look' = NotYetLooked /\ found' = NoChange
        /\ marked' = {} /\ sealed' = TRUE
    BY <1>3 DEF End
  <2>2. QED
    BY <2>1 DEF InOrder, NotYetLooked
<1>4. CASE Take
  <2>1. queue' = NoChange /\ UNCHANGED <<sealed, check, todo, look, found, marked, batch>>
    BY <1>4 DEF Take, snapshotVars, checkVars
  <2>2. QED
    BY <2>1 DEF InOrder
<1>5. ASSUME NEW f \in Files, NEW c \in States, Edit(f, c) PROVE InOrder'
  BY <1>5, <1>e DEF Edit, snapshotVars, checkVars, sentVars
<1>6. ASSUME NEW H \in SUBSET Hidable, EditRules(H) PROVE InOrder'
  BY <1>6, <1>e DEF EditRules, snapshotVars, checkVars, sentVars
<1>7. ASSUME NEW f \in Files, Age(f) \/ Repair(f) PROVE InOrder'
  BY <1>7, <1>e DEF Age, Repair, snapshotVars, checkVars, sentVars
<1>8. CASE FeedFails \/ RequestVerification \/ Drain \/ ScanPanics
  BY <1>8, <1>e DEF FeedFails, RequestVerification, Drain, ScanPanics, snapshotVars, checkVars, sentVars
<1>9. CASE UNCHANGED vars
  BY <1>9, <1>e DEF vars, snapshotVars, checkVars, sentVars
<1>10. QED
  BY <1>1, <1>2, <1>3, <1>4, <1>5, <1>6, <1>7, <1>8, <1>9 DEF Next

LEMMA Ordered == Spec => [](TypeOK /\ InOrder)
<1>1. Init => InOrder
  BY DEF Init, InOrder, NotYetLooked
<1>2. QED
  BY <1>1, TypeInit, TypeStep, OrderStep, PTL DEF Spec

-----------------------------------------------------------------------------
(* The watcher implements ChangeFeed *)

\* What the promise sees of the state.
SeenBar == [f \in Files |-> IF look[f] = "gone" THEN Absent ELSE seen[f]]
OwedBar == Paths(queue) \cup Paths(batch) \cup Paths(found)
           \cup {f \in Files : sealed /\ look[f] = "gone" /\ f \in Tracked}

LEMMA KeepsStamps ==
  ASSUME TypeOK, InOrder, NEW f \in Files, NEW content \in States \cup {Unread},
         NEW doubt \in BOOLEAN, NEW kind \in Kinds \cup {"none"},
         look[f] # "none", Stamps(f, content, doubt, kind)
  PROVE  /\ UNCHANGED <<disk, hidden, sealed>>
         /\ SeenBar' = [SeenBar EXCEPT ![f] = content]
         /\ OwedBar' = (OwedBar \ {f})
              \cup (IF f \in Paths(queue) \cup Paths(batch) \/ (sealed /\ kind # "none")
                    THEN {f} ELSE {})
<1>1. /\ look' = [look EXCEPT ![f] = "none"] /\ seen' = [seen EXCEPT ![f] = content]
      /\ found' = [found EXCEPT ![f] = IF sealed THEN kind ELSE "none"]
      /\ UNCHANGED <<disk, hidden, sealed, queue, batch>>
  BY DEF Stamps, diskVars, sentVars
<1>2. /\ look \in [Files -> {"none", "gone", "steady", "changed"}]
      /\ seen \in [Files -> States \cup {Unread}] /\ found \in [Files -> Kinds \cup {"none"}]
  BY DEF TypeOK, ChangeSets
<1>3. \A g \in Files : /\ look'[g] = (IF g = f THEN "none" ELSE look[g])
                       /\ seen'[g] = (IF g = f THEN content ELSE seen[g])
                       /\ found'[g] = (IF g = f THEN IF sealed THEN kind ELSE "none" ELSE found[g])
  BY <1>1, <1>2
<1>4. SeenBar' = [SeenBar EXCEPT ![f] = content]
  BY <1>3 DEF SeenBar
<1>5. ASSUME NEW g \in Files, g # f PROVE g \in OwedBar' <=> g \in OwedBar
  BY <1>1, <1>3, <1>5 DEF OwedBar, Paths, Tracked
<1>6. f \in OwedBar' <=> f \in Paths(queue) \cup Paths(batch) \/ (sealed /\ kind # "none")
  BY <1>1, <1>3 DEF OwedBar, Paths
<1>7. OwedBar \subseteq Files /\ OwedBar' \subseteq Files
  BY DEF OwedBar, Paths
<1>8. QED
  BY <1>1, <1>4, <1>5, <1>6, <1>7

LEMMA KeepsLook ==
  ASSUME TypeOK, InOrder, NEW f \in Files, LookAt(f)
  PROVE  [Promise!Next]_(Promise!feedVars)
<1> DEFINE Same == UNCHANGED <<disk, hidden, sealed, SeenBar, OwedBar>>
           Finds == (IF disk[f] = Absent THEN {Unread} ELSE {disk[f]})
                      \cup (IF disk[f] = Absent \/ f \in hidden THEN {Absent} ELSE {})
           Looks == /\ \E v \in Finds :
                         /\ SeenBar' = [SeenBar EXCEPT ![f] = v]
                         /\ \/ OwedBar' = OwedBar \cup {f}
                            \/ (sealed => SeenBar[f] \in {v, Unread}) /\ UNCHANGED OwedBar
                    /\ UNCHANGED <<disk, hidden, sealed>>
<1>1. Same => UNCHANGED Promise!feedVars
  BY DEF Promise!feedVars, SeenBar, OwedBar
<1>2. Looks => Promise!Look(f)
  BY DEF Promise!Look, Promise!Finds, SeenBar, OwedBar
<1>3. SUFFICES Same \/ Looks
  BY <1>1, <1>2 DEF Promise!Next
<1> HIDE DEF Same, Looks
<1>t. /\ disk[f] \in States /\ seen[f] \in States \cup {Unread} /\ fresh[f] \in BOOLEAN
      /\ unsettled[f] \in BOOLEAN /\ sealed \in BOOLEAN
      /\ SeenBar \in [Files -> States \cup {Unread}] /\ OwedBar \subseteq Files
  BY DEF TypeOK, SeenBar, OwedBar, Paths, States
<1>d. States = Contents \cup {Absent} /\ Absent # Unread /\ Unread \notin Contents /\ Absent \notin Contents
  BY WatcherAssumption DEF States
<1>4. CASE Stat(f)
  <2>1. /\ look \in [Files -> {"none", "gone", "steady", "changed"}] /\ look[f] = "none"
        /\ seen \in [Files -> States \cup {Unread}]
        /\ UNCHANGED <<disk, hidden, sealed, seen, queue, batch, found>>
    BY <1>4 DEF Stat, InOrder, TypeOK, diskVars, snapshotVars, sentVars
  <2>2. CASE Admitted(f)
    <3>1. /\ look' \in [Files -> {"none", "gone", "steady", "changed"}]
          /\ look'[f] # "gone" /\ \A g \in Files : g # f => look'[g] = look[g]
      BY <1>4, <2>1, <2>2 DEF Stat
    <3>2. \A g \in Files : look'[g] = "gone" <=> look[g] = "gone"
      BY <2>1, <3>1
    <3>3. Same
      BY <2>1, <3>2 DEF Same, SeenBar, OwedBar, Tracked
    <3>4. QED
      BY <3>3
  <2>3. CASE ~Admitted(f)
    <3>1. \A g \in Files : look'[g] = (IF g = f THEN "gone" ELSE look[g])
      BY <1>4, <2>1, <2>3 DEF Stat
    <3>2. SeenBar' = [SeenBar EXCEPT ![f] = Absent] /\ SeenBar[f] = seen[f]
      BY <2>1, <3>1 DEF SeenBar
    <3>3. OwedBar' = OwedBar \cup (IF sealed /\ f \in Tracked THEN {f} ELSE {})
      BY <2>1, <3>1 DEF OwedBar, Tracked
    <3>4. sealed /\ f \notin Tracked => seen[f] = Absent
      BY DEF Tracked
    <3>5. Absent \in Finds
      BY <2>3 DEF Admitted
    <3>6. Looks
      BY <2>1, <3>2, <3>3, <3>4, <3>5 DEF Looks
    <3>7. QED
      BY <3>6
  <2>4. QED
    BY <2>2, <2>3
<1>5. CASE Forget(f)
  <2> DEFINE kind == IF f \in Tracked THEN "removed" ELSE "none"
  <2>1. look[f] = "gone" /\ Stamps(f, Absent, FALSE, kind)
    BY <1>5 DEF Forget
  <2>2. kind \in Kinds \cup {"none"} /\ (kind # "none" <=> f \in Tracked)
    BY DEF Kinds
  <2> HIDE DEF kind
  <2>3. /\ UNCHANGED <<disk, hidden, sealed>> /\ SeenBar' = [SeenBar EXCEPT ![f] = Absent]
        /\ OwedBar' = (OwedBar \ {f})
             \cup (IF f \in Paths(queue) \cup Paths(batch) \/ (sealed /\ kind # "none")
                   THEN {f} ELSE {})
    BY <2>1, <2>2, <1>d, KeepsStamps
  <2>4. SeenBar[f] = Absent
    BY <2>1 DEF SeenBar
  <2>5. f \in OwedBar <=> f \in Paths(queue) \cup Paths(batch) \/ (sealed /\ f \in Tracked)
    BY <2>1 DEF OwedBar, InOrder, Paths
  <2>6. Same
    BY <2>2, <2>3, <2>4, <2>5, <1>t DEF Same
  <2>7. QED
    BY <2>6
<1>s. ASSUME NEW content \in States \cup {Unread}, NEW doubt \in BOOLEAN,
             NEW kind \in Kinds \cup {"none"}, Stamps(f, content, doubt, kind),
             look[f] \in {"steady", "changed"}
      PROVE  /\ UNCHANGED <<disk, hidden, sealed>> /\ SeenBar' = [SeenBar EXCEPT ![f] = content]
             /\ SeenBar[f] = seen[f]
             /\ OwedBar' = OwedBar \cup (IF sealed /\ kind # "none" THEN {f} ELSE {})
  <2>1. f \in OwedBar <=> f \in Paths(queue) \cup Paths(batch)
    BY <1>s DEF OwedBar, InOrder, Paths
  <2>2. SeenBar[f] = seen[f]
    BY <1>s DEF SeenBar
  <2>3. QED
    BY <1>s, <2>1, <2>2, <1>t, KeepsStamps
<1>k. ASSUME NEW doubt \in BOOLEAN, Stamps(f, seen[f], doubt, "none"), look[f] \in {"steady", "changed"}
      PROVE  Same
  <2>1. /\ UNCHANGED <<disk, hidden, sealed>> /\ SeenBar' = [SeenBar EXCEPT ![f] = seen[f]]
        /\ SeenBar[f] = seen[f]
        /\ OwedBar' = OwedBar \cup (IF sealed /\ "none" # "none" THEN {f} ELSE {})
    BY <1>k, <1>s, <1>t
  <2>2. SeenBar' = SeenBar /\ OwedBar' = OwedBar
    BY <2>1, <1>t
  <2>3. QED
    BY <2>1, <2>2 DEF Same
<1>6. CASE Admit(f)
  <2> DEFINE content == IF disk[f] = Absent THEN Unread ELSE disk[f]
  <2>1. look[f] \in {"steady", "changed"} /\ seen[f] = Absent /\ Stamps(f, content, fresh[f], "added")
    BY <1>6 DEF Admit, MayRead, TypeOK, Tracked
  <2>2. content \in States \cup {Unread} /\ content \in Finds
    BY <1>t
  <2> HIDE DEF content
  <2>3. /\ UNCHANGED <<disk, hidden, sealed>> /\ SeenBar' = [SeenBar EXCEPT ![f] = content]
        /\ OwedBar' = OwedBar \cup (IF sealed THEN {f} ELSE {})
    BY <1>s, <1>t, <2>1, <2>2 DEF Kinds
  <2>4. Looks
    BY <2>2, <2>3, <1>t DEF Looks
  <2>5. QED
    BY <2>4
<1>7. CASE Trust(f)
  <2>1. look[f] \in {"steady", "changed"} /\ Stamps(f, seen[f], FALSE, "none")
    BY <1>7 DEF Trust
  <2>2. Same
    BY <1>k, <2>1
  <2>3. QED
    BY <2>2
<1>8. CASE Hash(f)
  <2> DEFINE kind == IF Changed(f, disk[f]) THEN "modified" ELSE "none"
  <2>1. /\ look[f] \in {"steady", "changed"} /\ disk[f] # Absent
        /\ Stamps(f, disk[f], fresh[f], kind)
    BY <1>8 DEF Hash, Suspected, MayRead, TypeOK
  <2>2. /\ kind \in Kinds \cup {"none"} /\ disk[f] \in Finds
        /\ kind = "none" => seen[f] \in {disk[f], Unread}
    BY <2>1 DEF Kinds, Changed
  <2> HIDE DEF kind
  <2>3. /\ UNCHANGED <<disk, hidden, sealed>> /\ SeenBar' = [SeenBar EXCEPT ![f] = disk[f]]
        /\ SeenBar[f] = seen[f]
        /\ OwedBar' = OwedBar \cup (IF sealed /\ kind # "none" THEN {f} ELSE {})
    BY <1>s, <1>t, <2>1, <2>2
  <2>4. Looks
    BY <2>2, <2>3, <1>t DEF Looks
  <2>5. QED
    BY <2>4
<1>9. CASE HashFails(f)
  <2>1. look[f] \in {"steady", "changed"} /\ disk[f] = Absent
    BY <1>9 DEF HashFails, Suspected, MayRead, TypeOK
  <2>2. CASE seen[f] = Unread
    <3> DEFINE kind == IF look[f] = "changed" THEN "modified" ELSE "none"
    <3>1. Stamps(f, Unread, fresh[f] \/ unsettled[f], kind) /\ kind \in Kinds \cup {"none"}
      BY <1>9, <2>2 DEF HashFails, Kinds
    <3> HIDE DEF kind
    <3>2. /\ UNCHANGED <<disk, hidden, sealed>> /\ SeenBar' = [SeenBar EXCEPT ![f] = Unread]
          /\ SeenBar[f] = Unread
          /\ OwedBar' = OwedBar \cup (IF sealed /\ kind # "none" THEN {f} ELSE {})
      BY <1>s, <1>t, <2>1, <2>2, <3>1
    <3>3. Looks
      BY <2>1, <3>2, <1>t DEF Looks
    <3>4. QED
      BY <3>3
  <2>3. CASE seen[f] # Unread
    <3>1. Stamps(f, seen[f], TRUE, "none")
      BY <1>9, <2>3 DEF HashFails
    <3>2. Same
      BY <1>k, <2>1, <3>1
    <3>3. QED
      BY <3>2
  <2>4. QED
    BY <2>2, <2>3
<1>10. QED
  BY <1>4, <1>5, <1>6, <1>7, <1>8, <1>9 DEF LookAt

LEMMA KeepsEnd ==
  ASSUME TypeOK, InOrder, End
  PROVE  [Promise!Next]_(Promise!feedVars)
<1> DEFINE S == IF check \in FullChecks /\ sealed THEN repaired ELSE marked
           changes == Reported(found, S)
<1>1. /\ UNCHANGED <<disk, hidden, seen>> /\ sealed' = TRUE /\ look = NotYetLooked /\ look' = look
      /\ found' = NoChange
  BY DEF End, diskVars
<1>2. SeenBar' = SeenBar
  BY <1>1 DEF SeenBar
<1>3. changes \in ChangeSets /\ Paths(changes) = Paths(found) \cup (S \cap Files) /\ S \subseteq Files
  BY ReportedType DEF TypeOK
<1>4. OwedBar = Paths(queue) \cup Paths(batch) \cup Paths(found)
  BY <1>1 DEF OwedBar, NotYetLooked
<1>5. OwedBar' = Paths(queue') \cup Paths(batch')
  BY <1>1, NoChangeType DEF OwedBar, NotYetLooked, Paths
<1>6. Paths(queue') \cup Paths(batch') = Paths(queue) \cup Paths(batch) \cup Paths(changes)
  <2> HIDE DEF changes, S
  <2>1. queue \in ChangeSets /\ batch \in ChangeSets
    BY DEF TypeOK
  <2>2. CASE check # "poll"
    <3>1. queue' = Merge(queue, changes) /\ UNCHANGED batch
      BY <2>2 DEF End, changes, S
    <3>2. QED
      BY <1>3, <2>1, <3>1, MergeType DEF Paths
  <2>3. CASE check = "poll" /\ changes # NoChange
    <3>1. batch' = Merge(batch, changes) /\ UNCHANGED queue
      BY <2>3 DEF End, changes, S
    <3>2. QED
      BY <1>3, <2>1, <3>1, MergeType DEF Paths
  <2>4. CASE check = "poll" /\ changes = NoChange
    <3>1. queue' = Merge(queue, batch) /\ batch' = NoChange
      BY <2>4 DEF End, changes, S
    <3>2. QED
      BY <2>1, <2>4, <3>1, MergeType, NoChangeType
  <2>5. QED
    BY <2>2, <2>3, <2>4
<1>7. OwedBar' = OwedBar \cup S
  BY <1>3, <1>4, <1>5, <1>6
<1> HIDE DEF changes
<1>8. CASE sealed
  <2>1. PICK T \in SUBSET Files : T = S
    BY <1>3
  <2>2. Promise!Owe(T)
    BY <1>1, <1>2, <1>7, <1>8, <2>1 DEF Promise!Owe, SeenBar, OwedBar
  <2>3. QED
    BY <2>2 DEF Promise!Next
<1>9. CASE ~sealed
  <2>1. S = {}
    BY <1>9 DEF InOrder
  <2>2. Promise!Seal
    BY <1>1, <1>2, <1>7, <2>1 DEF Promise!Seal, SeenBar, OwedBar
  <2>3. QED
    BY <2>2 DEF Promise!Next
<1>10. QED
  BY <1>8, <1>9

LEMMA KeepsStep ==
  TypeOK /\ InOrder /\ [Next]_vars => [Promise!Next]_(Promise!feedVars)
<1> SUFFICES ASSUME TypeOK, InOrder, [Next]_vars PROVE [Promise!Next]_(Promise!feedVars)
  OBVIOUS
<1>e. ASSUME UNCHANGED <<sealed, look, seen, found, batch, queue>>
      PROVE  SeenBar' = SeenBar /\ OwedBar' = OwedBar
  BY <1>e DEF SeenBar, OwedBar, Tracked
<1>s. ASSUME UNCHANGED <<disk, hidden, sealed, look, seen, found, batch, queue>>
      PROVE  UNCHANGED Promise!feedVars
  BY <1>s, <1>e DEF Promise!feedVars, SeenBar, OwedBar
<1>c. ASSUME disk' \in [Files -> States], hidden' \in SUBSET Files,
             UNCHANGED <<sealed, look, seen, found, batch, queue>>
      PROVE  Promise!Next
  <2>1. Promise!Change
    BY <1>c, <1>e DEF Promise!Change, States, SeenBar, OwedBar
  <2>2. QED
    BY <2>1 DEF Promise!Next
<1>1. ASSUME NEW f \in Files, NEW c \in States, Edit(f, c) PROVE Promise!Next
  <2>1. disk' \in [Files -> States] /\ hidden' \in SUBSET Files
    BY <1>1, WatcherAssumption DEF Edit, TypeOK
  <2>2. QED
    BY <1>1, <1>c, <2>1 DEF Edit, snapshotVars, checkVars, sentVars
<1>2. ASSUME NEW H \in SUBSET Hidable, EditRules(H) PROVE Promise!Next
  <2>1. disk' \in [Files -> States] /\ hidden' \in SUBSET Files
    BY <1>2, WatcherAssumption DEF EditRules, TypeOK
  <2>2. QED
    BY <1>2, <1>c, <2>1 DEF EditRules, snapshotVars, checkVars, sentVars
<1>3. ASSUME NEW f \in Files, Age(f) \/ Repair(f) PROVE UNCHANGED Promise!feedVars
  BY <1>3, <1>s DEF Age, Repair, diskVars, snapshotVars, checkVars, sentVars
<1>4. CASE FeedFails \/ RequestVerification \/ Drain \/ ScanPanics
  BY <1>4, <1>s DEF FeedFails, RequestVerification, Drain, ScanPanics, diskVars, snapshotVars,
                    checkVars, sentVars
<1>5. CASE Starts
  <2>1. check = "none" /\ look' = NotYetLooked /\ found' = NoChange
        /\ UNCHANGED <<disk, hidden, sealed, seen, batch, queue>>
    BY <1>5 DEF Starts, StartDirected, StartFull, StartPoll, Begins, diskVars, snapshotVars, sentVars
  <2>2. UNCHANGED Promise!feedVars
    BY <1>s, <2>1 DEF InOrder
  <2>3. QED
    BY <2>2
<1>6. CASE Take
  <2> DEFINE S == Paths(queue) \ (Paths(batch) \cup Paths(found)
                    \cup {f \in Files : sealed /\ look[f] = "gone" /\ f \in Tracked})
  <2>1. queue' = NoChange /\ UNCHANGED <<disk, hidden, sealed, look, seen, found, batch>>
    BY <1>6 DEF Take, diskVars, snapshotVars, checkVars
  <2>2. SeenBar' = SeenBar
    BY <2>1 DEF SeenBar
  <2>3. OwedBar' = OwedBar \ S
    BY <2>1, NoChangeType DEF OwedBar, Tracked, Paths
  <2>4. PICK T \in SUBSET Files : T = S
    BY DEF Paths
  <2>5. Promise!Deliver(T)
    BY <2>1, <2>2, <2>3, <2>4 DEF Promise!Deliver, SeenBar, OwedBar
  <2>6. QED
    BY <2>5 DEF Promise!Next
<1>7. CASE UNCHANGED vars
  BY <1>7, <1>s DEF vars, diskVars, snapshotVars, checkVars, sentVars
<1>8. QED
  BY <1>1, <1>2, <1>3, <1>4, <1>5, <1>6, <1>7, KeepsLook, KeepsEnd DEF Next

\* The watcher implements ChangeFeed, although a look is a stat and a read with edits in between,
\* and although what is found waits to be sent: a file that a look finds otherwise than the look
\* before is owed to the consumer until it is told (Watcher::check, directed_check, run_loop).
THEOREM PromiseIsKept == Spec => KeepsPromise
<1>1. Init => Promise!Init
  BY NoChangeType DEF Init, Promise!Init, States, NotYetLooked
<1>2. QED
  BY <1>1, Ordered, KeepsStep, PTL DEF Spec, KeepsPromise, Promise!Spec

-----------------------------------------------------------------------------
(* Stamps *)

\* Metadata that is unchanged and settled is of a file whose tick is over, so that the next write
\* will show; and it is of the content hashed last, unless the file is gone.
Settled(f) == ~young[f] /\ disk[f] \in {seen[f], Absent}

Tells(f) ==
    /\ look[f] = "none" /\ f \in Tracked /\ same[f] /\ ~unsettled[f] => Settled(f)
    /\ look[f] \in {"steady", "changed"} /\ same[f] /\ ~fresh[f] => ~young[f]
    /\ look[f] = "steady" /\ f \in Tracked /\ same[f] /\ ~unsettled[f] /\ ~fresh[f] => Settled(f)
AllTell == \A f \in Files : Tells(f)

LEMMA TellStamps ==
  ASSUME TypeOK, AllTell, NEW f \in Files, NEW content, NEW doubt \in BOOLEAN, NEW kind,
         Stamps(f, content, doubt, kind),
         content # Absent /\ same[f] /\ ~doubt => ~young[f] /\ disk[f] \in {content, Absent}
  PROVE  AllTell'
<1>1. /\ look' = [look EXCEPT ![f] = "none"] /\ seen' = [seen EXCEPT ![f] = content]
      /\ unsettled' = [unsettled EXCEPT ![f] = doubt] /\ fresh' = [fresh EXCEPT ![f] = FALSE]
      /\ UNCHANGED <<disk, young, same>>
  BY DEF Stamps, diskVars
<1>2. \A g \in Files : g # f => /\ look'[g] = look[g] /\ seen'[g] = seen[g]
                                /\ unsettled'[g] = unsettled[g] /\ fresh'[g] = fresh[g]
  BY <1>1 DEF TypeOK
<1>3. look'[f] = "none" /\ seen'[f] = content /\ unsettled'[f] = doubt
  BY <1>1 DEF TypeOK
<1>4. QED
  BY <1>1, <1>2, <1>3 DEF AllTell, Tells, Settled, Tracked

LEMMA TellLook ==
  ASSUME TypeOK, InOrder, AllTell, NEW f \in Files, LookAt(f)
  PROVE  AllTell'
<1>t. /\ fresh[f] \in BOOLEAN /\ unsettled[f] \in BOOLEAN /\ same[f] \in BOOLEAN /\ young[f] \in BOOLEAN
      /\ disk[f] \in States /\ look[f] \in {"none", "gone", "steady", "changed"}
  BY DEF TypeOK
<1>d. Unread \notin States
  BY WatcherAssumption DEF States
<1>1. CASE Stat(f)
  <2>1. /\ f \in todo /\ look[f] = "none" /\ UNCHANGED <<disk, young, seen, unsettled>>
    BY <1>1 DEF Stat, InOrder, diskVars, snapshotVars
  <2>2. ASSUME NEW g \in Files, g # f PROVE Tells(g)'
    <3>1. look'[g] = look[g] /\ fresh'[g] = fresh[g] /\ same'[g] = same[g]
      BY <1>1, <2>2 DEF Stat, TypeOK
    <3>2. QED
      BY <2>1, <3>1 DEF AllTell, Tells, Settled, Tracked
  <2>3. CASE Admitted(f)
    <3>1. look'[f] = (IF same[f] THEN "steady" ELSE "changed") /\ fresh'[f] = young[f] /\ same'[f] = TRUE
      BY <1>1, <2>3 DEF Stat, TypeOK
    <3>2. Tells(f)'
      BY <1>t, <2>1, <3>1 DEF AllTell, Tells, Settled, Tracked
    <3>3. QED
      BY <2>2, <3>2 DEF AllTell
  <2>4. CASE ~Admitted(f)
    <3>1. look'[f] = "gone"
      BY <1>1, <2>4 DEF Stat, TypeOK
    <3>2. Tells(f)'
      BY <3>1 DEF Tells
    <3>3. QED
      BY <2>2, <3>2 DEF AllTell
  <2>5. QED
    BY <2>3, <2>4
<1>2. CASE Forget(f)
  BY <1>2, TellStamps DEF Forget
<1>3. CASE Admit(f)
  <2> DEFINE content == IF disk[f] = Absent THEN Unread ELSE disk[f]
  <2>1. Stamps(f, content, fresh[f], "added") /\ look[f] \in {"steady", "changed"}
    BY <1>3, <1>t DEF Admit, MayRead
  <2>2. disk[f] \in {content, Absent} /\ (same[f] /\ ~fresh[f] => ~young[f])
    BY <2>1 DEF AllTell, Tells
  <2> HIDE DEF content
  <2>3. QED
    BY <1>t, <2>1, <2>2, TellStamps
<1>4. CASE Trust(f)
  <2>1. /\ Stamps(f, seen[f], FALSE, "none")
        /\ same[f] => ~young[f] /\ disk[f] \in {seen[f], Absent}
    BY <1>4 DEF Trust, AllTell, Tells, Settled
  <2>2. QED
    BY <2>1, TellStamps
<1>5. CASE Hash(f)
  <2> DEFINE kind == IF Changed(f, disk[f]) THEN "modified" ELSE "none"
  <2>1. Stamps(f, disk[f], fresh[f], kind) /\ (same[f] /\ ~fresh[f] => ~young[f])
    BY <1>5, <1>t DEF Hash, Suspected, MayRead, AllTell, Tells
  <2> HIDE DEF kind
  <2>2. QED
    BY <1>t, <2>1, TellStamps
<1>6. CASE HashFails(f)
  <2>1. look[f] \in {"steady", "changed"} /\ disk[f] = Absent /\ (same[f] /\ ~fresh[f] => ~young[f])
    BY <1>6, <1>t DEF HashFails, Suspected, MayRead, AllTell, Tells
  <2>2. CASE seen[f] = Unread
    <3> DEFINE kind == IF look[f] = "changed" THEN "modified" ELSE "none"
    <3>1. Stamps(f, Unread, fresh[f] \/ unsettled[f], kind)
      BY <1>6, <2>2 DEF HashFails
    <3> HIDE DEF kind
    <3>2. QED
      BY <1>t, <2>1, <3>1, TellStamps
  <2>3. CASE seen[f] # Unread
    <3>1. Stamps(f, seen[f], TRUE, "none")
      BY <1>6, <2>3 DEF HashFails
    <3>2. QED
      BY <3>1, TellStamps
  <2>4. QED
    BY <2>2, <2>3
<1>7. QED
  BY <1>1, <1>2, <1>3, <1>4, <1>5, <1>6 DEF LookAt

LEMMA TellStep == TypeOK /\ InOrder /\ AllTell /\ [Next]_vars => AllTell'
<1> SUFFICES ASSUME TypeOK, InOrder, AllTell, [Next]_vars PROVE AllTell'
  OBVIOUS
<1>e. ASSUME UNCHANGED <<disk, young, same, look, seen, unsettled, fresh>> PROVE AllTell'
  BY <1>e DEF AllTell, Tells, Settled, Tracked
<1>1. ASSUME NEW f \in Files, NEW c \in States, Edit(f, c) PROVE AllTell'
  <2>1. /\ disk' = [disk EXCEPT ![f] = c] /\ UNCHANGED <<look, seen, unsettled, fresh>>
    BY <1>1 DEF Edit, snapshotVars, checkVars
  <2>2. /\ disk'[f] = c /\ \A g \in Files : g # f => disk'[g] = disk[g]
    BY <2>1 DEF TypeOK
  <2>3. CASE c = Absent
    <3>1. UNCHANGED <<young, same>>
      BY <1>1, <2>3 DEF Edit
    <3>2. QED
      BY <2>1, <2>2, <2>3, <3>1 DEF AllTell, Tells, Settled, Tracked
  <2>4. CASE c # Absent
    <3>1. /\ \A g \in Files : g # f => young'[g] = young[g] /\ same'[g] = same[g]
          /\ same'[f] => young[f] /\ same[f]
      BY <1>1, <2>4 DEF Edit, TypeOK
    <3>2. ASSUME NEW g \in Files, g # f PROVE Tells(g)'
      BY <2>1, <2>2, <3>1, <3>2 DEF AllTell, Tells, Settled, Tracked
    <3>3. Tells(f)'
      BY <2>1, <3>1 DEF AllTell, Tells, Settled, Tracked
    <3>4. QED
      BY <3>2, <3>3 DEF AllTell
  <2>5. QED
    BY <2>3, <2>4
<1>2. ASSUME NEW f \in Files, Age(f) PROVE AllTell'
  <2>1. /\ UNCHANGED <<disk, same, look, seen, unsettled, fresh>>
        /\ \A g \in Files : young'[g] => young[g]
    BY <1>2 DEF Age, snapshotVars, checkVars, TypeOK
  <2>2. QED
    BY <2>1 DEF AllTell, Tells, Settled, Tracked
<1>3. CASE Starts
  <2>1. /\ look' = look /\ UNCHANGED <<disk, young, same, seen, unsettled, fresh>>
    BY <1>3 DEF Starts, StartDirected, StartFull, StartPoll, Begins, diskVars, snapshotVars, InOrder
  <2>2. QED
    BY <2>1, <1>e
<1>4. CASE End
  BY <1>4, <1>e DEF End, diskVars
<1>5. ASSUME NEW H \in SUBSET Hidable, EditRules(H) PROVE AllTell'
  BY <1>5, <1>e DEF EditRules, snapshotVars, checkVars
<1>6. ASSUME NEW f \in Files, Repair(f) PROVE AllTell'
  BY <1>6, <1>e DEF Repair, diskVars, snapshotVars, checkVars
<1>7. CASE FeedFails \/ RequestVerification \/ Drain \/ ScanPanics \/ Take
  BY <1>7, <1>e DEF FeedFails, RequestVerification, Drain, ScanPanics, Take, diskVars, snapshotVars,
                    checkVars
<1>8. CASE UNCHANGED vars
  BY <1>8, <1>e DEF vars, diskVars, snapshotVars, checkVars
<1>9. QED
  BY <1>1, <1>2, <1>3, <1>4, <1>5, <1>6, <1>7, <1>8, TellLook DEF Next

LEMMA StampsKept == Spec => [](TypeOK /\ InOrder /\ AllTell)
<1>1. Init => AllTell
  BY DEF Init, AllTell, Tells, Tracked, NotYetLooked
<1>2. QED
  BY <1>1, Ordered, TellStep, PTL DEF Spec

\* However edits, ticks and the two steps of a look fall together, a file whose content is not the one
\* hashed last shows it (confirm, is_unsettled).
THEOREM StampsAreTrue == Spec => []StampsTell
<1>1. TypeOK /\ AllTell => StampsTell
  BY DEF TypeOK, AllTell, Tells, Settled, StampsTell
<1>2. QED
  BY <1>1, StampsKept, PTL

-----------------------------------------------------------------------------
(* No change is forgotten *)

\* Something on its way will have f checked again.
Waiting(f) == {f, Rules} \cap (feed \cup pending) # {} \/ overflow \/ allDirty

\* A look that has been overtaken by an edit or by other rules is followed by another.
Overtaken(f) == \/ look[f] = "gone" /\ Admitted(f)
                \/ look[f] \in {"steady", "changed"} /\ ~Admitted(f)
LooksAgain == mode = "events" => \A f \in Files \ Unwatched : Overtaken(f) => Waiting(f)

Actual(f) == IF Admitted(f) THEN disk[f] ELSE Absent
Unforgotten(f) == seen[f] # Actual(f) => Waiting(f) \/ WillFind(f)

LEMMA ForgottenMeans ==
  NoChangeForgotten <=>
    (mode = "events" /\ (sealed \/ check # "none") => \A f \in Files \ Unwatched : Unforgotten(f))
BY DEF NoChangeForgotten, Unforgotten, Actual, Waiting

Untouched(f) == disk'[f] = disk[f] /\ (f \in hidden' <=> f \in hidden)

\* What an edit or other rules do: they wait, and take nothing back that waits.
LEMMA NotifyWaits ==
  ASSUME NEW S, mode = "events", Notify(S), UNCHANGED <<pending, allDirty>>
  PROVE  /\ \A f \in Files : Waiting(f) => Waiting(f)'
         /\ \A f \in Files : f \in S \/ Rules \in S => Waiting(f)'
BY DEF Notify, Waiting

LEMMA ForgetLook ==
  ASSUME TypeOK, InOrder, AllTell, LooksAgain, NoChangeForgotten, NEW f \in Files, LookAt(f),
         mode' = "events"
  PROVE  LooksAgain' /\ NoChangeForgotten'
<1>w. /\ mode = "events" /\ check # "none" /\ UNCHANGED <<disk, hidden, feed, pending, overflow, allDirty>>
  <2>1. look[f] # "none" \/ f \in todo
    BY DEF LookAt, Stat, Forget, Admit, Trust, Hash, HashFails, Suspected, MayRead
  <2>2. UNCHANGED <<mode, disk, hidden, feed, pending, overflow, allDirty>>
    BY DEF LookAt, Stat, Forget, Admit, Trust, Hash, HashFails, Stamps, diskVars, intakeVars
  <2>3. QED
    BY <2>1, <2>2 DEF InOrder, NotYetLooked
<1>1. \A g \in Files : /\ Waiting(g) <=> Waiting(g)'
                       /\ (Admitted(g) <=> Admitted(g)') /\ Actual(g)' = Actual(g)
  BY <1>w DEF Waiting, Admitted, Actual
<1>2. \A g \in Files \ Unwatched : (Overtaken(g) => Waiting(g)) /\ Unforgotten(g)
  BY <1>w, ForgottenMeans DEF LooksAgain
<1>3. \A g \in Files : g # f =>
        /\ look'[g] = look[g] /\ seen'[g] = seen[g] /\ unsettled'[g] = unsettled[g] /\ fresh'[g] = fresh[g]
        /\ g \in todo' <=> g \in todo
  BY DEF LookAt, Stat, Forget, Admit, Trust, Hash, HashFails, Stamps, snapshotVars, TypeOK
<1>4. ASSUME NEW g \in Files \ Unwatched, g # f
      PROVE  (Overtaken(g)' => Waiting(g)') /\ Unforgotten(g)'
  BY <1>1, <1>2, <1>3, <1>4 DEF Overtaken, Unforgotten, WillFind, Tracked
<1>t. look[f] \in {"none", "gone", "steady", "changed"} /\ disk[f] \in States /\ f \in Files
      /\ Unread \notin States
  BY WatcherAssumption DEF TypeOK, States
<1>s. ASSUME NEW content, NEW doubt, NEW kind, Stamps(f, content, doubt, kind)
      PROVE  look'[f] = "none" /\ seen'[f] = content
  BY <1>s DEF Stamps, TypeOK
<1>5. f \notin Unwatched => (Overtaken(f)' => Waiting(f)') /\ Unforgotten(f)'
  <2> SUFFICES ASSUME f \notin Unwatched PROVE (Overtaken(f)' => Waiting(f)') /\ Unforgotten(f)'
    OBVIOUS
  <2>r. (Overtaken(f) => Waiting(f)) /\ Unforgotten(f)
    BY <1>2
  <2>1. CASE Stat(f)
    <3>1. look[f] = "none" /\ UNCHANGED <<seen, unsettled>>
      BY <2>1 DEF Stat, InOrder, snapshotVars
    <3>2. CASE ~Admitted(f)
      <4>1. look'[f] = "gone"
        BY <2>1, <3>2 DEF Stat, TypeOK
      <4>2. QED
        BY <1>1, <3>2, <4>1 DEF Overtaken, Unforgotten, WillFind
    <3>3. CASE Admitted(f)
      <4>1. look'[f] = (IF same[f] THEN "steady" ELSE "changed") /\ fresh'[f] = young[f]
        BY <2>1, <3>3 DEF Stat, TypeOK
      <4>2. same[f] /\ f \in Tracked /\ ~unsettled[f] /\ ~young[f] => seen[f] = Actual(f)
        BY <3>1, <3>3, <1>t DEF AllTell, Tells, Settled, Actual, Admitted
      <4>3. QED
        BY <1>1, <3>1, <3>3, <4>1, <4>2 DEF Overtaken, Unforgotten, WillFind, Tracked
    <3>4. QED
      BY <3>2, <3>3
  <2>2. CASE Forget(f)
    <3>1. look[f] = "gone" /\ look'[f] = "none" /\ seen'[f] = Absent
      BY <1>s, <2>2 DEF Forget
    <3>2. QED
      BY <1>1, <2>r, <3>1 DEF Overtaken, Unforgotten, Actual
  <2>3. CASE Admit(f)
    <3>1. /\ look[f] \in {"steady", "changed"} /\ look'[f] = "none"
          /\ seen'[f] = IF disk[f] = Absent THEN Unread ELSE disk[f]
      BY <1>s, <1>t, <2>3 DEF Admit, MayRead
    <3>2. QED
      BY <1>1, <2>r, <3>1 DEF Overtaken, Unforgotten, Actual, Admitted
  <2>4. CASE Trust(f)
    <3>1. /\ look[f] = "steady" /\ look'[f] = "none" /\ seen'[f] = seen[f]
          /\ f \in Tracked /\ ~unsettled[f] /\ ~fresh[f]
      BY <1>s, <2>4 DEF Trust
    <3>2. f \notin todo
      BY <3>1 DEF InOrder
    <3>3. QED
      BY <1>1, <2>r, <3>1, <3>2 DEF Overtaken, Unforgotten, WillFind
  <2>5. CASE Hash(f)
    <3>1. look[f] \in {"steady", "changed"} /\ look'[f] = "none" /\ seen'[f] = disk[f]
      BY <1>s, <1>t, <2>5 DEF Hash, Suspected, MayRead
    <3>2. QED
      BY <1>1, <2>r, <3>1 DEF Overtaken, Unforgotten, Actual
  <2>6. CASE HashFails(f)
    <3>1. look[f] \in {"steady", "changed"} /\ look'[f] = "none" /\ disk[f] = Absent
      <4>1. look[f] \in {"steady", "changed"} /\ disk[f] = Absent
        BY <1>t, <2>6 DEF HashFails, Suspected, MayRead
      <4>2. look' = [look EXCEPT ![f] = "none"]
        BY <2>6 DEF HashFails, Stamps
      <4>3. QED
        BY <4>1, <4>2 DEF TypeOK
    <3>2. QED
      BY <1>1, <2>r, <3>1 DEF Overtaken, Unforgotten, Admitted
  <2>7. QED
    BY <2>1, <2>2, <2>3, <2>4, <2>5, <2>6 DEF LookAt
<1>6. \A g \in Files \ Unwatched : (Overtaken(g)' => Waiting(g)') /\ Unforgotten(g)'
  BY <1>4, <1>5
<1>7. LooksAgain'
  BY <1>6 DEF LooksAgain
<1>8. NoChangeForgotten'
  BY <1>6 DEF NoChangeForgotten, Unforgotten, Actual, Waiting
<1>9. QED
  BY <1>7, <1>8

LEMMA ForgetStep ==
  TypeOK /\ InOrder /\ AllTell /\ LooksAgain /\ NoChangeForgotten /\ [Next]_vars
    => LooksAgain' /\ NoChangeForgotten'
<1> SUFFICES ASSUME TypeOK, InOrder, AllTell, LooksAgain, NoChangeForgotten, [Next]_vars,
                    mode' = "events"
             PROVE  LooksAgain' /\ NoChangeForgotten'
  BY DEF LooksAgain, NoChangeForgotten
<1>u. ASSUME mode = "events", UNCHANGED <<disk, hidden, sealed, check, look, seen, unsettled, fresh, todo>>,
             \A f \in Files : Waiting(f) => Waiting(f)'
      PROVE  LooksAgain' /\ NoChangeForgotten'
  <2>1. \A f \in Files : /\ (Overtaken(f)' <=> Overtaken(f)) /\ (Unforgotten(f) => Unforgotten(f)')
    BY <1>u DEF Overtaken, Unforgotten, Actual, Admitted, WillFind, Tracked
  <2>2. LooksAgain'
    BY <1>u, <2>1 DEF LooksAgain
  <2>3. NoChangeForgotten'
    BY <1>u, <2>1 DEF NoChangeForgotten, Unforgotten, Actual, Waiting
  <2>4. QED
    BY <2>2, <2>3
<1>n. ASSUME mode = "events", UNCHANGED <<sealed, check, look, seen, unsettled, fresh, todo>>,
             NEW S \in SUBSET (Files \cup {Rules}), UNCHANGED <<pending, allDirty>>, Notify(S),
             \A f \in Files \ Unwatched : f \in S \/ Rules \in S \/ Untouched(f)
      PROVE  LooksAgain' /\ NoChangeForgotten'
  <2>1. ASSUME NEW f \in Files \ Unwatched, f \in S \/ Rules \in S PROVE Waiting(f)'
    BY <1>n, <2>1, NotifyWaits
  <2>2. ASSUME NEW f \in Files \ Unwatched, Untouched(f)
        PROVE  /\ (Overtaken(f)' <=> Overtaken(f)) /\ (Unforgotten(f) => Unforgotten(f)')
               /\ Waiting(f) => Waiting(f)'
    <3>1. Waiting(f) => Waiting(f)'
      BY <1>n, NotifyWaits
    <3>2. QED
      BY <1>n, <2>2, <3>1 DEF Untouched, Overtaken, Unforgotten, Actual, Admitted, WillFind, Tracked
  <2>3. LooksAgain'
    BY <1>n, <2>1, <2>2 DEF LooksAgain
  <2>4. ASSUME sealed' \/ check' # "none", NEW f \in Files \ Unwatched PROVE Unforgotten(f)'
    <3>1. Unforgotten(f)
      BY <1>n, <2>4, ForgottenMeans
    <3>2. CASE f \in S \/ Rules \in S
      BY <2>1, <3>2 DEF Unforgotten
    <3>3. CASE Untouched(f)
      BY <2>2, <3>1, <3>3
    <3>4. QED
      BY <1>n, <3>2, <3>3
  <2>5. NoChangeForgotten'
    BY <2>4 DEF NoChangeForgotten, Unforgotten, Actual, Waiting
  <2>6. QED
    BY <2>3, <2>5
<1>1. ASSUME NEW f \in Files, NEW c \in States, Edit(f, c) PROVE LooksAgain' /\ NoChangeForgotten'
  <2>1. /\ mode = "events" /\ UNCHANGED <<sealed, check, look, seen, unsettled, fresh, todo>>
        /\ UNCHANGED <<pending, allDirty, hidden>> /\ Notify({f} \ Unwatched)
        /\ {f} \ Unwatched \in SUBSET (Files \cup {Rules})
    BY <1>1 DEF Edit, snapshotVars, checkVars
  <2>2. \A g \in Files : g # f => disk'[g] = disk[g]
    BY <1>1 DEF Edit, TypeOK
  <2>3. \A g \in Files \ Unwatched : g \in {f} \ Unwatched \/ Untouched(g)
    BY <2>1, <2>2 DEF Untouched
  <2>4. QED
    BY <1>n, <2>1, <2>3
<1>2. ASSUME NEW H \in SUBSET Hidable, EditRules(H) PROVE LooksAgain' /\ NoChangeForgotten'
  <2>1. /\ mode = "events" /\ UNCHANGED <<sealed, check, look, seen, unsettled, fresh, todo>>
        /\ UNCHANGED <<pending, allDirty>> /\ Notify({Rules})
    BY <1>2 DEF EditRules, snapshotVars, checkVars
  <2>2. PICK S \in SUBSET (Files \cup {Rules}) : S = {Rules}
    OBVIOUS
  <2>3. Notify(S) /\ Rules \in S
    BY <2>1, <2>2
  <2>4. QED
    BY <1>n, <2>1, <2>3
<1>3. CASE Drain
  <2>1. /\ mode = "events" /\ UNCHANGED <<disk, hidden, sealed, check, look, seen, unsettled, fresh, todo>>
    BY <1>3 DEF Drain, diskVars, snapshotVars, checkVars
  <2>2. \A f \in Files : Waiting(f) => Waiting(f)'
    BY <1>3 DEF Drain, Waiting
  <2>3. QED
    BY <1>u, <2>1, <2>2
<1>4. CASE Starts
  <2>1. /\ mode = "events" /\ look' = NotYetLooked /\ check = "none" /\ check' # "none" /\ look = NotYetLooked
        /\ UNCHANGED <<disk, hidden, seen, unsettled, fresh, sealed, feed, overflow>>
    BY <1>4 DEF Starts, StartDirected, StartFull, StartPoll, Begins, diskVars, snapshotVars, InOrder
  <2>2. LooksAgain'
    BY <2>1 DEF LooksAgain, Overtaken, NotYetLooked
  <2>3. ASSUME NEW f \in Files \ Unwatched PROVE Unforgotten(f)'
    <3>1. CASE StartDirected
      <4>1. /\ sealed /\ ~allDirty /\ todo' = pending \cap Files /\ Rules \notin pending
        BY <3>1 DEF StartDirected, Begins, TypeOK
      <4>2. Unforgotten(f) /\ f \notin todo /\ look[f] = "none"
        BY <2>1, <4>1, ForgottenMeans DEF InOrder, NotYetLooked
      <4>3. f \in pending => f \in todo'
        BY <4>1
      <4>4. Waiting(f) => Waiting(f)' \/ f \in todo'
        BY <2>1, <4>1 DEF Waiting
      <4>5. QED
        BY <2>1, <4>2, <4>4 DEF Unforgotten, WillFind, Actual, Admitted
    <3>2. CASE ~StartDirected
      <4>1. todo' = Files
        BY <1>4, <3>2 DEF Starts, StartFull, StartPoll, Begins
      <4>2. QED
        BY <4>1 DEF Unforgotten, WillFind
    <3>3. QED
      BY <3>1, <3>2
  <2>4. NoChangeForgotten'
    BY <2>3 DEF NoChangeForgotten, Unforgotten, Actual, Waiting
  <2>5. QED
    BY <2>2, <2>4
<1>5. CASE End
  <2>1. /\ mode = "events" /\ check # "none" /\ todo = {} /\ look = NotYetLooked
        /\ UNCHANGED <<disk, hidden, feed, pending, overflow, allDirty, seen, unsettled, fresh, todo, look>>
    BY <1>5 DEF End, diskVars, intakeVars
  <2>2. LooksAgain'
    BY <2>1 DEF LooksAgain, Overtaken, NotYetLooked
  <2>3. ASSUME NEW f \in Files \ Unwatched PROVE Unforgotten(f)'
    <3>1. Unforgotten(f)
      BY <2>1, ForgottenMeans
    <3>2. QED
      BY <2>1, <3>1 DEF Unforgotten, WillFind, Actual, Admitted, Waiting, Tracked
  <2>4. NoChangeForgotten'
    BY <2>3 DEF NoChangeForgotten, Unforgotten, Actual, Waiting
  <2>5. QED
    BY <2>2, <2>4
<1>6. ASSUME NEW f \in Files, Age(f) \/ Repair(f) PROVE LooksAgain' /\ NoChangeForgotten'
  <2>1. /\ mode = "events" /\ UNCHANGED <<disk, hidden, sealed, check, look, seen, unsettled, fresh, todo>>
        /\ UNCHANGED <<feed, pending, overflow, allDirty>>
    BY <1>6 DEF Age, Repair, diskVars, intakeVars, snapshotVars, checkVars
  <2>2. QED
    BY <1>u, <2>1 DEF Waiting
<1>7. CASE RequestVerification \/ Take \/ UNCHANGED vars
  <2>1. /\ mode = "events" /\ UNCHANGED <<disk, hidden, sealed, check, look, seen, unsettled, fresh, todo>>
        /\ UNCHANGED <<feed, pending, overflow, allDirty>>
    BY <1>7 DEF RequestVerification, Take, vars, diskVars, intakeVars, snapshotVars, checkVars
  <2>2. QED
    BY <1>u, <2>1 DEF Waiting
<1>8. CASE FeedFails \/ ScanPanics
  BY <1>8 DEF FeedFails, ScanPanics
<1>9. QED
  BY <1>1, <1>2, <1>3, <1>4, <1>5, <1>6, <1>7, <1>8, ForgetLook DEF Next

\* While events drive the watcher, no interleaving of edits, events, overflows, rule edits, directed
\* checks and scans forgets a change, for any number of files (event_loop, Intake).
THEOREM NothingForgotten == Spec => []NoChangeForgotten
<1>1. Init => LooksAgain /\ NoChangeForgotten
  BY DEF Init, LooksAgain, NoChangeForgotten, Overtaken, NotYetLooked
<1>2. QED
  BY <1>1, StampsKept, ForgetStep, PTL DEF Spec

-----------------------------------------------------------------------------
(* What is sent replays *)

LEMMA AppliedAt ==
  ASSUME NEW K \in SUBSET Files, NEW c \in ChangeSets
  PROVE  /\ Applied(K, c) \in SUBSET Files
         /\ \A f \in Files : f \in Applied(K, c) <=>
              \/ c[f] = "none" /\ f \in K
              \/ c[f] \in {"added", "modified"}
BY DEF Applied, ChangeSets, Kinds

\* Two change sets applied one after the other do what their merge does.
LEMMA AppliedMerge ==
  ASSUME NEW K \in SUBSET Files, NEW a \in ChangeSets, NEW b \in ChangeSets
  PROVE  Applied(Applied(K, a), b) = Applied(K, Merge(a, b))
<1>1. \A f \in Files : f \in Applied(Applied(K, a), b) <=>
        \/ b[f] = "none" /\ ((a[f] = "none" /\ f \in K) \/ a[f] \in {"added", "modified"})
        \/ b[f] \in {"added", "modified"}
  BY AppliedAt
<1>2. \A f \in Files : f \in Applied(K, Merge(a, b)) <=>
        \/ Coalesced(a[f], b[f]) = "none" /\ f \in K
        \/ Coalesced(a[f], b[f]) \in {"added", "modified"}
  BY AppliedAt, MergeType DEF Merge
<1>3. ASSUME NEW f \in Files
      PROVE  f \in Applied(Applied(K, a), b) <=> f \in Applied(K, Merge(a, b))
  <2>1. a[f] \in Kinds \cup {"none"} /\ b[f] \in Kinds \cup {"none"}
    BY DEF ChangeSets
  <2>2. /\ Coalesced(a[f], b[f]) = "none" <=> a[f] = "none" /\ b[f] = "none"
        /\ Coalesced(a[f], b[f]) \in {"added", "modified"} <=>
             b[f] \in {"added", "modified"} \/ (b[f] = "none" /\ a[f] \in {"added", "modified"})
    BY <2>1 DEF Coalesced, Kinds
  <2>3. QED
    BY <1>1, <1>2, <2>2
<1>4. Applied(Applied(K, a), b) \in SUBSET Files /\ Applied(K, Merge(a, b)) \in SUBSET Files
  BY AppliedAt, MergeType
<1>5. QED
  BY <1>3, <1>4

\* What is sent is sent in the order it was found: no check but a poll ends while the polling thread
\* still holds changes back (run_loop sends a verification at once and keeps what polls have found).
SentInOrder == End /\ check # "poll" => batch = NoChange

\* A report says whether the file is in the snapshot now.
FoundTells == \A f \in Files : found[f] # "none" => (found[f] = "removed" <=> f \notin Tracked)

Told == Applied(Applied(Applied(known, queue), batch), found)

LEMMA ToldAt ==
  ASSUME TypeOK
  PROVE  /\ Applied(known, queue) \in SUBSET Files /\ Applied(Applied(known, queue), batch) \in SUBSET Files
         /\ \A f \in Files : f \in Told <=>
              \/ found[f] = "none" /\ f \in Applied(Applied(known, queue), batch)
              \/ found[f] \in {"added", "modified"}
BY AppliedAt DEF TypeOK, Told

LEMMA ReplayStamps ==
  ASSUME TypeOK, InOrder, FoundTells, FileSetReplays, NEW f \in Files,
         NEW content, NEW doubt, NEW kind \in Kinds \cup {"none"}, look[f] # "none",
         Stamps(f, content, doubt, kind), TypeOK',
         kind = "none" => (content # Absent <=> f \in Tracked),
         kind # "none" => (kind = "removed" <=> content = Absent)
  PROVE  FoundTells' /\ FileSetReplays'
<1>1. /\ UNCHANGED <<sealed, known, queue, batch, repaired, marked>>
      /\ \A g \in Files : /\ seen'[g] = (IF g = f THEN content ELSE seen[g])
                          /\ found'[g] = (IF g # f THEN found[g] ELSE IF sealed THEN kind ELSE "none")
  BY DEF Stamps, TypeOK, logVars, sentVars, ChangeSets
<1>2. FoundTells'
  BY <1>1 DEF FoundTells, Tracked
<1>3. found[f] = "none"
  BY DEF InOrder
<1>4. ASSUME sealed, NEW g \in Files \ (repaired \cup marked) PROVE g \in Told' <=> g \in Tracked'
  <2>1. g \in Told <=> g \in Tracked
    BY <1>4 DEF FileSetReplays, Told
  <2>2. g \in Told <=> \/ found[g] = "none" /\ g \in Applied(Applied(known, queue), batch)
                       \/ found[g] \in {"added", "modified"}
    BY ToldAt
  <2>3. g \in Told' <=> \/ found'[g] = "none" /\ g \in Applied(Applied(known', queue'), batch')
                        \/ found'[g] \in {"added", "modified"}
    BY AppliedAt DEF TypeOK, Told
  <2>4. Applied(Applied(known', queue'), batch') = Applied(Applied(known, queue), batch)
    BY <1>1
  <2>5. QED
    BY <1>1, <1>3, <1>4, <2>1, <2>2, <2>3, <2>4 DEF Tracked, Kinds
<1>5. FileSetReplays'
  BY <1>1, <1>4 DEF FileSetReplays, Told
<1>6. QED
  BY <1>2, <1>5

LEMMA ReplayLook ==
  ASSUME TypeOK, InOrder, FoundTells, FileSetReplays, NEW f \in Files, LookAt(f), TypeOK'
  PROVE  FoundTells' /\ FileSetReplays'
<1>d. Unread # Absent /\ (seen[f] # Absent <=> f \in Tracked)
  BY WatcherAssumption DEF Tracked
<1>k. \A k \in {"none", "added", "modified", "removed"} : k \in Kinds \cup {"none"}
  BY DEF Kinds
<1>1. CASE Stat(f)
  <2>1. UNCHANGED <<sealed, seen, found, known, queue, batch, repaired, marked>>
    BY <1>1 DEF Stat, logVars, snapshotVars, sentVars
  <2>2. QED
    BY <2>1 DEF FoundTells, FileSetReplays, Tracked, Applied
<1>2. CASE Forget(f)
  <2> DEFINE kind == IF f \in Tracked THEN "removed" ELSE "none"
  <2>1. look[f] # "none" /\ Stamps(f, Absent, FALSE, kind) /\ kind \in Kinds \cup {"none"}
    BY <1>2, <1>k DEF Forget
  <2>2. (kind = "none" => f \notin Tracked) /\ (kind # "none" => kind = "removed")
    OBVIOUS
  <2> HIDE DEF kind
  <2>3. QED
    BY <2>1, <2>2, ReplayStamps
<1>3. CASE Admit(f)
  <2> DEFINE content == IF disk[f] = Absent THEN Unread ELSE disk[f]
  <2>1. look[f] # "none" /\ Stamps(f, content, fresh[f], "added") /\ content # Absent
    BY <1>3, <1>d, WatcherAssumption DEF Admit, MayRead
  <2> HIDE DEF content
  <2>2. QED
    BY <1>k, <2>1, ReplayStamps
<1>4. CASE Trust(f)
  <2>1. look[f] # "none" /\ Stamps(f, seen[f], FALSE, "none") /\ (seen[f] # Absent <=> f \in Tracked)
    BY <1>4 DEF Trust, Tracked
  <2>2. QED
    BY <1>k, <2>1, ReplayStamps
<1>5. CASE Hash(f)
  <2> DEFINE kind == IF Changed(f, disk[f]) THEN "modified" ELSE "none"
  <2>1. /\ look[f] # "none" /\ f \in Tracked /\ disk[f] # Absent /\ Stamps(f, disk[f], fresh[f], kind)
        /\ kind \in {"modified", "none"}
    BY <1>5 DEF Hash, Suspected, MayRead
  <2> HIDE DEF kind
  <2>2. QED
    BY <1>k, <2>1, ReplayStamps
<1>6. CASE HashFails(f)
  <2>1. look[f] # "none" /\ f \in Tracked
    BY <1>6 DEF HashFails, Suspected, MayRead
  <2>2. CASE seen[f] = Unread
    <3> DEFINE kind == IF look[f] = "changed" THEN "modified" ELSE "none"
    <3>1. Stamps(f, Unread, fresh[f] \/ unsettled[f], kind) /\ kind \in {"modified", "none"}
      BY <1>6, <2>2 DEF HashFails
    <3> HIDE DEF kind
    <3>2. QED
      BY <1>k, <2>1, <3>1, ReplayStamps, WatcherAssumption
  <2>3. CASE seen[f] # Unread
    <3>1. Stamps(f, seen[f], TRUE, "none") /\ seen[f] # Absent
      BY <1>6, <2>1, <2>3 DEF HashFails, Tracked
    <3>2. QED
      BY <1>k, <2>1, <3>1, ReplayStamps
  <2>4. QED
    BY <2>2, <2>3
<1>7. QED
  BY <1>1, <1>2, <1>3, <1>4, <1>5, <1>6 DEF LookAt

LEMMA ReplayEnd ==
  ASSUME SentInOrder, TypeOK, InOrder, FoundTells, FileSetReplays, End, TypeOK'
  PROVE  FoundTells' /\ FileSetReplays'
<1> DEFINE S == IF check \in FullChecks /\ sealed THEN repaired ELSE marked
           changes == Reported(found, S)
           K == Applied(known, queue)
<1>1. /\ UNCHANGED <<seen>> /\ sealed' = TRUE /\ found' = NoChange /\ marked' = {} /\ check # "none"
      /\ repaired' = IF check \in FullChecks /\ sealed THEN {} ELSE repaired
      /\ known' = IF sealed THEN known ELSE Tracked
  BY DEF End
<1>2. FoundTells'
  BY <1>1 DEF FoundTells, NoChange
<1>3. /\ changes \in ChangeSets /\ Paths(changes) = Paths(found) \cup (S \cap Files)
      /\ \A f \in Files : changes[f] = IF f \notin S \/ found[f] # "none" THEN found[f]
                                       ELSE IF f \in Tracked THEN "modified" ELSE "removed"
  <2>1. found \in ChangeSets
    BY DEF TypeOK
  <2>2. QED
    BY <2>1, ReportedType DEF Reported
<1>q. /\ CASE check # "poll" -> queue' = Merge(queue, changes) /\ UNCHANGED batch
           [] check = "poll" /\ changes # NoChange -> batch' = Merge(batch, changes) /\ UNCHANGED queue
           [] OTHER -> queue' = Merge(queue, batch) /\ batch' = NoChange
  BY DEF End
<1> HIDE DEF changes
<1>t. /\ known \in SUBSET Files /\ queue \in ChangeSets /\ batch \in ChangeSets
      /\ known' \in SUBSET Files /\ queue' \in ChangeSets /\ batch' \in ChangeSets
      /\ K \in SUBSET Files /\ Applied(K, batch) \in SUBSET Files
  BY AppliedAt DEF TypeOK
<1>n. \A X \in SUBSET Files : Applied(X, NoChange) = X
  <2>1. ASSUME NEW X \in SUBSET Files PROVE Applied(X, NoChange) = X
    <3>1. Applied(X, NoChange) \in SUBSET Files
          /\ \A f \in Files : f \in Applied(X, NoChange) <=> f \in X
      BY AppliedAt, NoChangeType DEF NoChange
    <3>2. QED
      BY <3>1
  <2>2. QED
    BY <2>1
<1>4. Told' = Applied(Applied(known', queue'), batch')
  <2>1. Applied(Applied(known', queue'), batch') \in SUBSET Files
    BY <1>t, AppliedAt
  <2>2. Told' = Applied(Applied(Applied(known', queue'), batch'), NoChange)
    BY <1>1 DEF Told
  <2>3. QED
    BY <1>n, <2>1, <2>2
<1>5. CASE sealed
  <2>1. Applied(Applied(known', queue'), batch') = Applied(Applied(K, batch), changes)
    <3>1. CASE check # "poll"
      <4>1. queue' = Merge(queue, changes) /\ batch' = batch /\ known' = known
        BY <1>1, <1>5, <1>q, <3>1
      <4>2. batch = NoChange
        BY <3>1 DEF SentInOrder
      <4>3. Applied(K, batch) = K /\ Applied(known', queue') = Applied(K, changes)
        BY <1>3, <1>n, <1>t, <4>1, <4>2, AppliedMerge
      <4>4. Applied(known', queue') \in SUBSET Files
        BY <1>t, AppliedAt
      <4>5. QED
        BY <1>n, <4>1, <4>2, <4>3, <4>4
    <3>2. CASE check = "poll" /\ changes # NoChange
      <4>1. batch' = Merge(batch, changes) /\ queue' = queue /\ known' = known
        BY <1>1, <1>5, <1>q, <3>2
      <4>2. QED
        BY <1>3, <1>t, <4>1, AppliedMerge
    <3>3. CASE check = "poll" /\ changes = NoChange
      <4>1. queue' = Merge(queue, batch) /\ batch' = NoChange /\ known' = known
        BY <1>1, <1>5, <1>q, <3>3
      <4>2. Applied(known', queue') = Applied(K, batch)
        BY <1>t, <4>1, AppliedMerge
      <4>3. QED
        BY <1>n, <1>t, <3>3, <4>1, <4>2
    <3>4. QED
      BY <3>1, <3>2, <3>3
  <2>2. \A f \in Files : f \in Told' <=> \/ changes[f] = "none" /\ f \in Applied(K, batch)
                                         \/ changes[f] \in {"added", "modified"}
    BY <1>3, <1>4, <1>t, <2>1, AppliedAt
  <2>3. ASSUME NEW f \in Files \ (repaired' \cup marked') PROVE f \in Told' <=> f \in Tracked
    <3>1. f \in S \/ f \notin repaired \cup marked
      BY <1>1, <2>3 DEF InOrder, FullChecks
    <3>2. CASE f \in S
      <4>1. found[f] # "none" => (found[f] = "removed" <=> f \notin Tracked)
        BY DEF FoundTells
      <4>2. changes[f] \in {"added", "modified", "removed"} /\ (changes[f] = "removed" <=> f \notin Tracked)
        BY <1>3, <3>2, <4>1 DEF ChangeSets, Kinds, TypeOK
      <4>3. QED
        BY <2>2, <4>2
    <3>3. CASE f \notin S /\ f \notin repaired \cup marked
      <4>1. f \in Told <=> f \in Tracked
        BY <1>5, <3>3, <2>3 DEF FileSetReplays, Told
      <4>2. changes[f] = found[f]
        BY <1>3, <2>3, <3>3
      <4>3. QED
        BY <2>2, <2>3, <4>1, <4>2, ToldAt
    <3>4. QED
      BY <3>1, <3>2, <3>3
  <2>4. QED
    BY <1>1, <1>2, <2>3 DEF FileSetReplays, Told, Tracked
<1>6. CASE ~sealed
  <2>1. S = {} /\ found = NoChange /\ queue = NoChange /\ batch = NoChange
    BY <1>6 DEF InOrder
  <2>2. \A f \in Files : changes[f] = "none"
    BY <1>3, <2>1 DEF NoChange
  <2>3. changes = NoChange
    BY <1>3, <2>2 DEF ChangeSets, NoChange
  <2>4. Merge(NoChange, NoChange) = NoChange
    BY DEF Merge, NoChange, Coalesced
  <2>5. queue' = NoChange /\ batch' = NoChange
    BY <1>q, <2>1, <2>3, <2>4
  <2>6. Told' = Tracked
    BY <1>1, <1>4, <1>6, <1>n, <1>t, <2>5
  <2>7. QED
    BY <1>1, <1>2, <2>6 DEF FileSetReplays, Told, Tracked
<1>7. QED
  BY <1>5, <1>6

LEMMA ReplayStep ==
  ASSUME SentInOrder, TypeOK, InOrder, FoundTells, FileSetReplays, [Next]_vars, TypeOK'
  PROVE  FoundTells' /\ FileSetReplays'
<1>e. ASSUME UNCHANGED <<sealed, seen, found, known, queue, batch>>,
             repaired \cup marked \subseteq repaired' \cup marked'
      PROVE  FoundTells' /\ FileSetReplays'
  BY <1>e DEF FoundTells, FileSetReplays, Tracked, Applied
<1>1. ASSUME NEW f \in Files, Repair(f) PROVE FoundTells' /\ FileSetReplays'
  <2>1. /\ UNCHANGED <<sealed, seen, found, queue, batch, marked>> /\ repaired' = repaired \cup {f}
        /\ \A g \in Files : g # f => (g \in known' <=> g \in known)
    BY <1>1 DEF Repair, snapshotVars, checkVars
  <2>2. FoundTells'
    BY <2>1 DEF FoundTells, Tracked
  <2>3. FileSetReplays'
    BY <2>1 DEF FileSetReplays, Tracked, Applied
  <2>4. QED
    BY <2>2, <2>3
<1>2. CASE Take
  <2>1. /\ UNCHANGED <<sealed, seen, found, batch, repaired, marked>>
        /\ queue' = NoChange /\ known' = Applied(known, queue)
    BY <1>2 DEF Take, snapshotVars, checkVars, logVars
  <2>2. known' \in SUBSET Files /\ Applied(known', NoChange) \in SUBSET Files
        /\ \A f \in Files : f \in Applied(known', NoChange) <=> f \in known'
    BY <2>1, AppliedAt, NoChangeType DEF NoChange, TypeOK
  <2>3. Applied(known', queue') = Applied(known, queue)
    BY <2>1, <2>2
  <2>4. QED
    BY <2>1, <2>3 DEF FoundTells, FileSetReplays, Tracked
<1>3. CASE Starts
  <2>1. /\ UNCHANGED <<sealed, seen, known, queue, batch>> /\ found = NoChange /\ found' = NoChange /\ marked = {}
    BY <1>3 DEF Starts, StartDirected, StartFull, StartPoll, Begins, snapshotVars, sentVars, InOrder
  <2>2. repaired \subseteq repaired' \cup marked'
    BY <1>3 DEF Starts, StartDirected, StartFull, StartPoll
  <2>3. QED
    BY <1>e, <2>1, <2>2
<1>4. ASSUME NEW f \in Files, NEW c \in States, Edit(f, c) PROVE FoundTells' /\ FileSetReplays'
  BY <1>e, <1>4 DEF Edit, logVars, snapshotVars, checkVars, sentVars
<1>5. ASSUME NEW H \in SUBSET Hidable, EditRules(H) PROVE FoundTells' /\ FileSetReplays'
  BY <1>e, <1>5 DEF EditRules, logVars, snapshotVars, checkVars, sentVars
<1>6. ASSUME NEW f \in Files, Age(f) PROVE FoundTells' /\ FileSetReplays'
  BY <1>e, <1>6 DEF Age, logVars, snapshotVars, checkVars, sentVars
<1>7. CASE FeedFails \/ RequestVerification \/ Drain \/ ScanPanics \/ UNCHANGED vars
  BY <1>e, <1>7 DEF FeedFails, RequestVerification, Drain, ScanPanics, vars, logVars, snapshotVars,
                    checkVars, sentVars
<1>8. QED
  BY <1>1, <1>2, <1>3, <1>4, <1>5, <1>6, <1>7, ReplayLook, ReplayEnd DEF Next

\* Whatever is coalesced, held back or sent while the next check runs, whatever verifications are
\* asked for and whatever queries read into the index out of band: an index that has applied all
\* reports has the files of the snapshot, unless one was sent past changes that polls hold back.
\* That order is all the file set needs (ChangeSet::merge, report_repaired, run_loop).
THEOREM OrderedReportsReplay == Spec /\ [][SentInOrder]_vars => []FileSetReplays
<1>1. Init => FoundTells /\ FileSetReplays
  BY DEF Init, FoundTells, FileSetReplays, NoChange
<1>2. TypeOK /\ InOrder /\ FoundTells /\ FileSetReplays /\ [Next]_vars /\ [SentInOrder]_vars
        => FoundTells' /\ FileSetReplays'
  <2> SUFFICES ASSUME TypeOK, InOrder, FoundTells, FileSetReplays, [Next]_vars, [SentInOrder]_vars
               PROVE  FoundTells' /\ FileSetReplays'
    OBVIOUS
  <2>1. CASE SentInOrder
    BY <2>1, ReplayStep, TypeStep
  <2>2. CASE UNCHANGED vars
    BY <2>2 DEF FoundTells, FileSetReplays, Tracked, Applied, vars, logVars, snapshotVars, checkVars, sentVars
  <2>3. QED
    BY <2>1, <2>2
<1>3. QED
  BY <1>1, <1>2, Ordered, PTL DEF Spec

\* Only the polling thread holds changes back, and then nobody asks for a verification.
HeldBack ==
    /\ mode # "polling" => batch = NoChange
    /\ mode \in {"failing", "polling"} => ~verify
    /\ mode = "polling" => check \in {"none", "poll"}
    /\ check = "poll" => mode = "polling"

LEMMA HeldStep ==
  ASSUME ~VerifyPolling, TypeOK, InOrder, HeldBack, [Next]_vars
  PROVE  HeldBack'
<1>1. ASSUME NEW f \in Files, LookAt(f) PROVE HeldBack'
  <2>1. UNCHANGED <<mode, batch, verify, check>>
    BY <1>1 DEF LookAt, Stat, Forget, Admit, Trust, Hash, HashFails, Stamps, logVars, sentVars
  <2>2. QED
    BY <2>1 DEF HeldBack
<1>2. CASE Starts
  BY <1>2 DEF Starts, StartDirected, StartFull, StartPoll, Begins, sentVars, HeldBack
<1>3. CASE End
  <2>1. CASE check # "poll"
    <3>1. UNCHANGED <<batch, verify>> /\ check' = "none" /\ mode # "dead" /\ check # "none"
          /\ mode' = IF mode = "failing" THEN "polling" ELSE mode
      BY <1>3, <2>1 DEF End
    <3>2. QED
      BY <2>1, <3>1 DEF HeldBack
  <2>2. CASE check = "poll"
    <3>1. UNCHANGED verify /\ check' = "none" /\ mode = "polling"
          /\ mode' = IF mode = "failing" THEN "polling" ELSE mode
      BY <1>3, <2>2 DEF End, HeldBack
    <3>2. QED
      BY <3>1 DEF HeldBack
  <2>3. QED
    BY <2>1, <2>2
<1>4. CASE FeedFails
  BY <1>4 DEF FeedFails, HeldBack, logVars, checkVars, sentVars, TypeOK, FullChecks
<1>5. CASE RequestVerification
  BY <1>5 DEF RequestVerification, HeldBack, checkVars, sentVars
<1>6. CASE ScanPanics
  BY <1>6 DEF ScanPanics, HeldBack, checkVars, sentVars
<1>7. ASSUME UNCHANGED <<mode, batch, verify, check>> PROVE HeldBack'
  BY <1>7 DEF HeldBack
<1>8. ASSUME NEW f \in Files, NEW c \in States, Edit(f, c) PROVE HeldBack'
  BY <1>7, <1>8 DEF Edit, logVars, checkVars, sentVars
<1>9. ASSUME NEW H \in SUBSET Hidable, EditRules(H) PROVE HeldBack'
  BY <1>7, <1>9 DEF EditRules, logVars, checkVars, sentVars
<1>10. ASSUME NEW f \in Files, Age(f) \/ Repair(f) PROVE HeldBack'
  BY <1>7, <1>10 DEF Age, Repair, logVars, checkVars, sentVars
<1>11. CASE Drain \/ Take \/ UNCHANGED vars
  BY <1>7, <1>11 DEF Drain, Take, vars, logVars, checkVars, sentVars
<1>12. QED
  BY <1>1, <1>2, <1>3, <1>4, <1>5, <1>6, <1>8, <1>9, <1>10, <1>11 DEF Next

\* If nobody asks a polling watcher for a verification, reports are sent in order.
THEOREM ReportsReplay ==
  ASSUME ~VerifyPolling PROVE Spec => []FileSetReplays
<1>1. Init => HeldBack
  BY DEF Init, HeldBack
<1>2. TypeOK /\ InOrder /\ HeldBack /\ [Next]_vars => HeldBack'
  BY HeldStep
<1>3. HeldBack => SentInOrder
  BY DEF HeldBack, SentInOrder, End
<1>4. QED
  BY <1>1, <1>2, <1>3, Ordered, OrderedReportsReplay, PTL DEF Spec

=============================================================================
