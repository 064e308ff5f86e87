-------------------------- MODULE FreshnessProofs --------------------------
(***************************************************************************)
(* Proofs about Freshness: type correctness, and what an answer without a  *)
(* note may miss if no full check ends between two reads of one decision:  *)
(* what waits for the reindex thread, and nothing at all if each change    *)
(* set is applied before the next check ends.  TLC shows that both         *)
(* conditions are needed: README.md, section 4.                            *)
(*                                                                         *)
(* The argument follows a write that the log was told of and the index     *)
(* lacks (Lacking).  A check finds it (Underway, WillBeChecked) and it is  *)
(* a suspect after the watermark that the check sets; a scan or a rebuild  *)
(* that came too early for it began before its note (ScanCovers,           *)
(* RebuildCovers), and so did a barrier that does not repair it            *)
(* (BarriersCover), so that none of them clears it.                        *)
(***************************************************************************)
EXTENDS Freshness, TLAPS

\* What an earlier check has found and nobody has applied yet: the watermark may have passed it.
Excused == IF Prompt THEN {} ELSE queue

\* Writes that the log was told of and that the index still lacks.
Lacking == (stale \cap noted) \ Excused

\* Such a write is a suspect after the watermark: SuspectsCover, but for what is excused.
NothingHidden == Lacking \subseteq after[Watermark]

\* What the index lacks is still to be found by a check, was found, or is on its way.
Underway ==
    /\ stale \subseteq unseen \cup found \cup queue
    /\ scan # "looked" => found = {}

\* Unless a scan has yet to look, what the log was told of is going to be checked.
WillBeChecked == scan # "looking" => Lacking \cap unseen \subseteq pending \cup queue

\* A write that a scan came too early for was noted after the scan had begun.
ScanCovers == scan = "looked" => Lacking \cap unseen \subseteq after[ScanStart]

\* A write that a rebuild came too early for was noted after the rebuild had begun.
RebuildCovers ==
    /\ rebuild = "read" => (lacks \cap noted) \ Excused \subseteq after[RebuildStart]
    /\ rebuild = "published" => Lacking \subseteq after[RebuildStart]

\* What a barrier will not repair was noted after it had begun, so that its clearing spares it.
BarriersCover ==
    \A q \in Queries :
      /\ pc[q] = "suspects" => Lacking \subseteq after[Began(q)] \cup after[Since(q)]
      /\ pc[q] = "repair" \/ (pc[q] = "trust" /\ ~distrusted) =>
           Lacking \subseteq after[Began(q)] \cup paths[q]
      /\ pc[q] = "clear" => Lacking \subseteq after[Began(q)]

\* A barrier reads all that is due, or the log was distrusted when it did.
DueIsRead ==
    \A q \in Queries :
      /\ due[q] \subseteq stale \cap noted
      /\ pc[q] = "suspects" => due[q] \subseteq after[Since(q)] \cup Excused
      /\ pc[q] = "repair" \/ (pc[q] = "trust" /\ ~distrusted) =>
           due[q] \subseteq paths[q] \cup Excused
      /\ pc[q] \in {"clear", "idle"} => due[q] \subseteq Excused

Covered ==
    /\ Underway /\ WillBeChecked /\ ScanCovers /\ NothingHidden
    /\ RebuildCovers /\ BarriersCover /\ DueIsRead

-----------------------------------------------------------------------------
\* Marks

\* Setting or dropping one mark leaves the others alone.
LEMMA MarksDiffer ==
    /\ Watermark \in Marks /\ ScanStart \in Marks /\ RebuildStart \in Marks
    /\ Watermark # ScanStart /\ Watermark # RebuildStart /\ ScanStart # RebuildStart
    /\ \A q \in Queries :
         /\ Began(q) \in Marks /\ Since(q) \in Marks
         /\ {Watermark, ScanStart, RebuildStart} \cap {Began(q), Since(q)} = {}
         /\ \A p \in Queries :
              /\ Began(q) # Since(p)
              /\ p # q => Began(p) # Began(q) /\ Since(p) # Since(q)
BY DEF Marks, Watermark, ScanStart, RebuildStart, Began, Since

-----------------------------------------------------------------------------
\* Type correctness

LEMMA TypeInit == Init => TypeOK
<1> SUFFICES ASSUME Init
             PROVE  TypeOK
  OBVIOUS
<1> USE DEF Init
<1>1. edits \in 0..MaxEdits
  BY FreshnessAssumption DEF FreshnessAssumption
<1>2. /\ after \in [Marks -> SUBSET suspects]
      /\ paths \in [Queries -> SUBSET Files] /\ due \in [Queries -> SUBSET stale]
  OBVIOUS
<1>3. /\ pc \in [Queries -> {"idle", "watermark", "suspects", "trust", "ask", "wait", "repair", "clear"}]
      /\ {second, moved} \subseteq [Queries -> BOOLEAN]
  OBVIOUS
<1>4. /\ {stale, unseen, events, noted, pending, suspects, found, queue, lacks} \subseteq SUBSET Files
      /\ {overflow, allDirty, distrusted, verify} \subseteq BOOLEAN
  OBVIOUS
<1> QED
  BY <1>1, <1>2, <1>3, <1>4 DEF TypeOK

LEMMA TypeStep ==
  ASSUME TypeOK, [Next]_vars
  PROVE  TypeOK'
<1> USE MarksDiffer, FreshnessAssumption DEF FreshnessAssumption, TypeOK, markVars, feedVars,
       scanVars, rebuildVars, queryVars
<1>1. CASE UNCHANGED vars
  BY <1>1 DEF vars
<1>2. ASSUME NEW f \in Files, Write(f)
      PROVE  TypeOK'
  <2>1. edits' \in 0..MaxEdits
    <3>1. edits \in Nat /\ edits < MaxEdits /\ edits' = edits + 1
      BY <1>2 DEF Write
    <3> QED
      BY <3>1
  <2>2. due' \in [Queries -> SUBSET stale'] /\ lacks' \in SUBSET Files /\ lacks' \subseteq stale'
    BY <1>2 DEF Write
  <2>3. /\ {stale', unseen', events', noted'} \subseteq SUBSET Files
        /\ overflow' \in BOOLEAN
    BY <1>2 DEF Write
  <2>4. /\ UNCHANGED <<pending, allDirty, suspects, after, distrusted, verify, scan, found, queue, rebuild>>
        /\ UNCHANGED <<pc, second, paths, moved>>
    BY <1>2 DEF Write
  <2> QED
    BY <2>1, <2>2, <2>3, <2>4
<1>3. CASE Absorb
  BY ZenonT(60), <1>3 DEF Absorb, NotePaths
<1>4. CASE CheckPending
  BY <1>4 DEF CheckPending, BumpWatermark, Wake
<1>5. ASSUME NEW asked \in BOOLEAN, ScanBegins(asked)
      PROVE  TypeOK'
  BY ZenonT(60), <1>5 DEF ScanBegins, Now
<1>6. CASE ScanLooks
  BY <1>6 DEF ScanLooks
<1>7. CASE ScanEnds
  BY ZenonT(60), <1>7 DEF ScanEnds, NoteVerified, Wake
<1>8. CASE ReindexApplies
  BY <1>8 DEF ReindexApplies, Apply, Covers
<1>9. CASE RebuildStarts
  BY <1>9 DEF RebuildStarts, Now
<1>10. CASE RebuildReads
  BY <1>10 DEF RebuildReads
<1>11. CASE RebuildPublishes
  BY <1>11 DEF RebuildPublishes, Covers
<1>12. CASE RebuildEnds
  BY <1>12 DEF RebuildEnds, ClearSuspectsThrough, Drop
<1>13. ASSUME NEW q \in Queries, Barrier(q)
      PROVE  TypeOK'
  <2>1. CASE Begin(q)
    BY <2>1 DEF At, Begin, Now, OthersUnchanged
  <2>2. CASE ReadWatermark(q)
    BY <2>2 DEF At, ReadWatermark, OthersUnchanged
  <2>3. CASE ReadSuspects(q)
    BY <2>3 DEF At, ReadSuspects, Drop, OthersUnchanged
  <2>4. CASE Fresh(q)
    BY <2>4 DEF At, Fresh, Return, Drop, OthersUnchanged
  <2>5. CASE WatermarkTooOld(q)
    BY <2>5 DEF At, WatermarkTooOld, OthersUnchanged
  <2>6. CASE RequestVerification(q)
    BY <2>6 DEF At, RequestVerification, OthersUnchanged
  <2>7. CASE RepairInline(q)
    BY <2>7 DEF At, RepairInline, OthersUnchanged
  <2>8. CASE Degrade(q)
    BY <2>8 DEF At, Degrade, Note, Return, Drop, OthersUnchanged
  <2>9. CASE Verified(q)
    BY <2>9 DEF At, Verified, Now, OthersUnchanged
  <2>10. CASE VerificationTimesOut(q)
    BY <2>10 DEF At, VerificationTimesOut, Note, Return, Drop, OthersUnchanged
  <2>11. CASE InlineRepair(q)
    BY <2>11 DEF At, InlineRepair, Apply, Covers, Return
  <2>12. CASE ClearRepaired(q)
    BY <2>12 DEF At, ClearRepaired, ClearSuspectsThrough, OthersUnchanged
  <2> QED
    BY <1>13, <2>1, <2>2, <2>3, <2>4, <2>5, <2>6, <2>7, <2>8, <2>9, <2>10, <2>11, <2>12 DEF Barrier
<1> QED
  BY <1>1, <1>2, <1>3, <1>4, <1>5, <1>6, <1>7, <1>8, <1>9, <1>10, <1>11, <1>12, <1>13 DEF Next

\* Suspects, marks and what a rebuild lacks fit together in every state: a suspect after a mark is a
\* suspect, and a rebuild only lacks what the index lacks (FreshnessLog, publish_rebuilt).
THEOREM TypeCorrect == Spec => []TypeOK
<1>1. Init => TypeOK
  BY TypeInit
<1>2. TypeOK /\ [Next]_vars => TypeOK'
  BY TypeStep
<1> QED
  BY <1>1, <1>2, PTL DEF Spec

-----------------------------------------------------------------------------
\* The parts of the invariant

LEMMA CoveredInit == Init => Covered
BY DEF Init, Covered, Lacking, Excused, Underway, WillBeChecked, ScanCovers, NothingHidden, RebuildCovers,
       BarriersCover, DueIsRead

\* A check moves what it finds to the queue, and only an apply takes it from there (End of a check,
\* for_each_reindex_batch).
LEMMA UnderwayStep ==
  ASSUME TypeOK, TypeOK', Underway, [Next]_vars
  PROVE  Underway'
<1> USE MarksDiffer DEF TypeOK, Underway, markVars, feedVars, scanVars, rebuildVars, queryVars
<1>1. CASE UNCHANGED vars
  BY <1>1 DEF vars
<1>2. ASSUME NEW f \in Files, Write(f)
      PROVE  Underway'
  BY <1>2 DEF Write
<1>3. CASE Absorb
  BY <1>3 DEF Absorb, NotePaths
<1>4. CASE CheckPending
  BY <1>4 DEF CheckPending, BumpWatermark, Wake
<1>5. ASSUME NEW asked \in BOOLEAN, ScanBegins(asked)
      PROVE  Underway'
  BY <1>5 DEF ScanBegins, Now
<1>6. CASE ScanLooks
  BY <1>6 DEF ScanLooks
<1>7. CASE ScanEnds
  BY <1>7 DEF ScanEnds, NoteVerified, Wake
<1>8. CASE ReindexApplies
  BY <1>8 DEF ReindexApplies, Apply, Covers
<1>9. CASE RebuildStarts
  BY <1>9 DEF RebuildStarts, Now
<1>10. CASE RebuildReads
  BY <1>10 DEF RebuildReads
<1>11. CASE RebuildPublishes
  BY <1>11 DEF RebuildPublishes, Covers
<1>12. CASE RebuildEnds
  BY <1>12 DEF RebuildEnds, ClearSuspectsThrough, Drop
<1>13. ASSUME NEW q \in Queries, Barrier(q)
      PROVE  Underway'
  <2>1. CASE Begin(q)
    BY <2>1 DEF At, Begin, Now, OthersUnchanged
  <2>2. CASE ReadWatermark(q)
    BY <2>2 DEF At, ReadWatermark, OthersUnchanged
  <2>3. CASE ReadSuspects(q)
    BY <2>3 DEF At, ReadSuspects, Drop, OthersUnchanged
  <2>4. CASE Fresh(q)
    BY <2>4 DEF At, Fresh, Return, Drop, OthersUnchanged
  <2>5. CASE WatermarkTooOld(q)
    BY <2>5 DEF At, WatermarkTooOld, OthersUnchanged
  <2>6. CASE RequestVerification(q)
    BY <2>6 DEF At, RequestVerification, OthersUnchanged
  <2>7. CASE RepairInline(q)
    BY <2>7 DEF At, RepairInline, OthersUnchanged
  <2>8. CASE Degrade(q)
    BY <2>8 DEF At, Degrade, Note, Return, Drop, OthersUnchanged
  <2>9. CASE Verified(q)
    BY <2>9 DEF At, Verified, Now, OthersUnchanged
  <2>10. CASE VerificationTimesOut(q)
    BY <2>10 DEF At, VerificationTimesOut, Note, Return, Drop, OthersUnchanged
  <2>11. CASE InlineRepair(q)
    BY <2>11 DEF At, InlineRepair, Apply, Covers, Return
  <2>12. CASE ClearRepaired(q)
    BY <2>12 DEF At, ClearRepaired, ClearSuspectsThrough, OthersUnchanged
  <2> QED
    BY <1>13, <2>1, <2>2, <2>3, <2>4, <2>5, <2>6, <2>7, <2>8, <2>9, <2>10, <2>11, <2>12 DEF Barrier
<1> QED
  BY <1>1, <1>2, <1>3, <1>4, <1>5, <1>6, <1>7, <1>8, <1>9, <1>10, <1>11, <1>12, <1>13 DEF Next

\* absorb notes a path and makes it pending at once; what a check has taken is in the queue, which is
\* applied before the next check ends or excused.
LEMMA PendsStep ==
  ASSUME TypeOK, TypeOK', Underway, WillBeChecked, [Next]_vars
  PROVE  WillBeChecked'
<1> USE MarksDiffer DEF TypeOK, Underway, WillBeChecked, Lacking, Excused, markVars, feedVars, scanVars,
       rebuildVars, queryVars
<1>1. CASE UNCHANGED vars
  BY <1>1 DEF vars
<1>2. ASSUME NEW f \in Files, Write(f)
      PROVE  WillBeChecked'
  BY <1>2 DEF Write
<1>3. CASE Absorb
  BY <1>3 DEF Absorb, NotePaths
<1>4. CASE CheckPending
  BY <1>4 DEF CheckPending, BumpWatermark, Wake
<1>5. ASSUME NEW asked \in BOOLEAN, ScanBegins(asked)
      PROVE  WillBeChecked'
  BY <1>5 DEF ScanBegins, Now
<1>6. CASE ScanLooks
  BY <1>6 DEF ScanLooks
<1>7. CASE ScanEnds
  BY <1>7 DEF ScanEnds, NoteVerified, Wake
<1>8. CASE ReindexApplies
  BY <1>8 DEF ReindexApplies, Apply, Covers
<1>9. CASE RebuildStarts
  BY <1>9 DEF RebuildStarts, Now
<1>10. CASE RebuildReads
  BY <1>10 DEF RebuildReads
<1>11. CASE RebuildPublishes
  BY <1>11 DEF RebuildPublishes, Covers
<1>12. CASE RebuildEnds
  BY <1>12 DEF RebuildEnds, ClearSuspectsThrough, Drop
<1>13. ASSUME NEW q \in Queries, Barrier(q)
      PROVE  WillBeChecked'
  <2>1. CASE Begin(q)
    BY <2>1 DEF At, Begin, Now, OthersUnchanged
  <2>2. CASE ReadWatermark(q)
    BY <2>2 DEF At, ReadWatermark, OthersUnchanged
  <2>3. CASE ReadSuspects(q)
    BY <2>3 DEF At, ReadSuspects, Drop, OthersUnchanged
  <2>4. CASE Fresh(q)
    BY <2>4 DEF At, Fresh, Return, Drop, OthersUnchanged
  <2>5. CASE WatermarkTooOld(q)
    BY <2>5 DEF At, WatermarkTooOld, OthersUnchanged
  <2>6. CASE RequestVerification(q)
    BY <2>6 DEF At, RequestVerification, OthersUnchanged
  <2>7. CASE RepairInline(q)
    BY <2>7 DEF At, RepairInline, OthersUnchanged
  <2>8. CASE Degrade(q)
    BY <2>8 DEF At, Degrade, Note, Return, Drop, OthersUnchanged
  <2>9. CASE Verified(q)
    BY <2>9 DEF At, Verified, Now, OthersUnchanged
  <2>10. CASE VerificationTimesOut(q)
    BY <2>10 DEF At, VerificationTimesOut, Note, Return, Drop, OthersUnchanged
  <2>11. CASE InlineRepair(q)
    BY <2>11 DEF At, InlineRepair, Apply, Covers, Return
  <2>12. CASE ClearRepaired(q)
    BY <2>12 DEF At, ClearRepaired, ClearSuspectsThrough, OthersUnchanged
  <2> QED
    BY <1>13, <2>1, <2>2, <2>3, <2>4, <2>5, <2>6, <2>7, <2>8, <2>9, <2>10, <2>11, <2>12 DEF Barrier
<1> QED
  BY <1>1, <1>2, <1>3, <1>4, <1>5, <1>6, <1>7, <1>8, <1>9, <1>10, <1>11, <1>12, <1>13 DEF Next

\* Events absorbed after a scan has looked are stamped after its start, and clearing spares them
\* (check, note_paths).
LEMMA ScanStep ==
  ASSUME TypeOK, TypeOK', ScanCovers, BarriersCover, RebuildCovers, [Next]_vars
  PROVE  ScanCovers'
<1> USE MarksDiffer DEF TypeOK, ScanCovers, BarriersCover, RebuildCovers, Lacking, Excused, markVars,
       feedVars, scanVars, rebuildVars, queryVars
<1>1. CASE UNCHANGED vars
  BY <1>1 DEF vars
<1>2. ASSUME NEW f \in Files, Write(f)
      PROVE  ScanCovers'
  BY <1>2 DEF Write
<1>3. CASE Absorb
  BY <1>3 DEF Absorb, NotePaths
<1>4. CASE CheckPending
  BY <1>4 DEF CheckPending, BumpWatermark, Wake
<1>5. ASSUME NEW asked \in BOOLEAN, ScanBegins(asked)
      PROVE  ScanCovers'
  BY <1>5 DEF ScanBegins, Now
<1>6. CASE ScanLooks
  BY <1>6 DEF ScanLooks
<1>7. CASE ScanEnds
  BY <1>7 DEF ScanEnds, NoteVerified, Wake
<1>8. CASE ReindexApplies
  BY <1>8 DEF ReindexApplies, Apply, Covers
<1>9. CASE RebuildStarts
  BY <1>9 DEF RebuildStarts, Now
<1>10. CASE RebuildReads
  BY <1>10 DEF RebuildReads
<1>11. CASE RebuildPublishes
  BY <1>11 DEF RebuildPublishes, Covers
<1>12. CASE RebuildEnds
  BY <1>12 DEF RebuildEnds, ClearSuspectsThrough, Drop
<1>13. ASSUME NEW q \in Queries, Barrier(q)
      PROVE  ScanCovers'
  <2>1. CASE Begin(q)
    BY <2>1 DEF At, Begin, Now, OthersUnchanged
  <2>2. CASE ReadWatermark(q)
    BY <2>2 DEF At, ReadWatermark, OthersUnchanged
  <2>3. CASE ReadSuspects(q)
    BY <2>3 DEF At, ReadSuspects, Drop, OthersUnchanged
  <2>4. CASE Fresh(q)
    BY <2>4 DEF At, Fresh, Return, Drop, OthersUnchanged
  <2>5. CASE WatermarkTooOld(q)
    BY <2>5 DEF At, WatermarkTooOld, OthersUnchanged
  <2>6. CASE RequestVerification(q)
    BY <2>6 DEF At, RequestVerification, OthersUnchanged
  <2>7. CASE RepairInline(q)
    BY <2>7 DEF At, RepairInline, OthersUnchanged
  <2>8. CASE Degrade(q)
    BY <2>8 DEF At, Degrade, Note, Return, Drop, OthersUnchanged
  <2>9. CASE Verified(q)
    BY ZenonT(60), <2>9 DEF At, Verified, Now, OthersUnchanged
  <2>10. CASE VerificationTimesOut(q)
    BY <2>10 DEF At, VerificationTimesOut, Note, Return, Drop, OthersUnchanged
  <2>11. CASE InlineRepair(q)
    BY <2>11 DEF At, InlineRepair, Apply, Covers, Return
  <2>12. CASE ClearRepaired(q)
    BY <2>12 DEF At, ClearRepaired, ClearSuspectsThrough, OthersUnchanged
  <2> QED
    BY <1>13, <2>1, <2>2, <2>3, <2>4, <2>5, <2>6, <2>7, <2>8, <2>9, <2>10, <2>11, <2>12 DEF Barrier
<1> QED
  BY <1>1, <1>2, <1>3, <1>4, <1>5, <1>6, <1>7, <1>8, <1>9, <1>10, <1>11, <1>12, <1>13 DEF Next

\* No move of the watermark and no clearing of suspects hides a write that the index lacks
\* (bump_watermark, note_verified, clear_suspects_through).
LEMMA SuspectsStep ==
  ASSUME TypeOK, TypeOK', Underway, WillBeChecked, ScanCovers, NothingHidden,
         BarriersCover, RebuildCovers, [Next]_vars
  PROVE  NothingHidden'
<1> USE MarksDiffer DEF TypeOK, Underway, WillBeChecked, ScanCovers, NothingHidden,
       BarriersCover, RebuildCovers, Lacking, Excused, markVars, feedVars, scanVars, rebuildVars,
       queryVars
<1>1. CASE UNCHANGED vars
  BY <1>1 DEF vars
<1>2. ASSUME NEW f \in Files, Write(f)
      PROVE  NothingHidden'
  BY <1>2 DEF Write
<1>3. CASE Absorb
  BY <1>3 DEF Absorb, NotePaths
<1>4. CASE CheckPending
  BY <1>4 DEF CheckPending, BumpWatermark, Wake
<1>5. ASSUME NEW asked \in BOOLEAN, ScanBegins(asked)
      PROVE  NothingHidden'
  BY <1>5 DEF ScanBegins, Now
<1>6. CASE ScanLooks
  BY <1>6 DEF ScanLooks
<1>7. CASE ScanEnds
  BY <1>7 DEF ScanEnds, NoteVerified, Wake
<1>8. CASE ReindexApplies
  BY <1>8 DEF ReindexApplies, Apply, Covers
<1>9. CASE RebuildStarts
  BY <1>9 DEF RebuildStarts, Now
<1>10. CASE RebuildReads
  BY <1>10 DEF RebuildReads
<1>11. CASE RebuildPublishes
  BY <1>11 DEF RebuildPublishes, Covers
<1>12. CASE RebuildEnds
  BY <1>12 DEF RebuildEnds, ClearSuspectsThrough, Drop
<1>13. ASSUME NEW q \in Queries, Barrier(q)
      PROVE  NothingHidden'
  <2>1. CASE Begin(q)
    BY <2>1 DEF At, Begin, Now, OthersUnchanged
  <2>2. CASE ReadWatermark(q)
    BY <2>2 DEF At, ReadWatermark, OthersUnchanged
  <2>3. CASE ReadSuspects(q)
    BY <2>3 DEF At, ReadSuspects, Drop, OthersUnchanged
  <2>4. CASE Fresh(q)
    BY <2>4 DEF At, Fresh, Return, Drop, OthersUnchanged
  <2>5. CASE WatermarkTooOld(q)
    BY <2>5 DEF At, WatermarkTooOld, OthersUnchanged
  <2>6. CASE RequestVerification(q)
    BY <2>6 DEF At, RequestVerification, OthersUnchanged
  <2>7. CASE RepairInline(q)
    BY <2>7 DEF At, RepairInline, OthersUnchanged
  <2>8. CASE Degrade(q)
    BY <2>8 DEF At, Degrade, Note, Return, Drop, OthersUnchanged
  <2>9. CASE Verified(q)
    BY <2>9 DEF At, Verified, Now, OthersUnchanged
  <2>10. CASE VerificationTimesOut(q)
    BY <2>10 DEF At, VerificationTimesOut, Note, Return, Drop, OthersUnchanged
  <2>11. CASE InlineRepair(q)
    BY <2>11 DEF At, InlineRepair, Apply, Covers, Return
  <2>12. CASE ClearRepaired(q)
    BY <2>12 DEF At, ClearRepaired, ClearSuspectsThrough, OthersUnchanged
  <2> QED
    BY <1>13, <2>1, <2>2, <2>3, <2>4, <2>5, <2>6, <2>7, <2>8, <2>9, <2>10, <2>11, <2>12 DEF Barrier
<1> QED
  BY <1>1, <1>2, <1>3, <1>4, <1>5, <1>6, <1>7, <1>8, <1>9, <1>10, <1>11, <1>12, <1>13 DEF Next

\* The suspects that a rebuild clears when it ends are in the index it has published.
LEMMA RebuildStep ==
  ASSUME TypeOK, TypeOK', Underway, NothingHidden', ScanCovers, BarriersCover, RebuildCovers,
         [Next]_vars
  PROVE  RebuildCovers'
<1> USE MarksDiffer DEF TypeOK, Underway, ScanCovers, NothingHidden, BarriersCover,
       RebuildCovers, Lacking, Excused, markVars, feedVars, scanVars, rebuildVars, queryVars
<1>1. CASE UNCHANGED vars
  BY <1>1 DEF vars
<1>2. ASSUME NEW f \in Files, Write(f)
      PROVE  RebuildCovers'
  BY <1>2 DEF Write
<1>3. CASE Absorb
  BY <1>3 DEF Absorb, NotePaths
<1>4. CASE CheckPending
  BY <1>4 DEF CheckPending, BumpWatermark, Wake
<1>5. ASSUME NEW asked \in BOOLEAN, ScanBegins(asked)
      PROVE  RebuildCovers'
  BY <1>5 DEF ScanBegins, Now
<1>6. CASE ScanLooks
  BY <1>6 DEF ScanLooks
<1>7. CASE ScanEnds
  BY <1>7 DEF ScanEnds, NoteVerified, Wake
<1>8. CASE ReindexApplies
  BY <1>8 DEF ReindexApplies, Apply, Covers
<1>9. CASE RebuildStarts
  BY <1>9 DEF RebuildStarts, Now
<1>10. CASE RebuildReads
  BY <1>10 DEF RebuildReads
<1>11. CASE RebuildPublishes
  BY <1>11 DEF RebuildPublishes, Covers
<1>12. CASE RebuildEnds
  BY <1>12 DEF RebuildEnds, ClearSuspectsThrough, Drop
<1>13. ASSUME NEW q \in Queries, Barrier(q)
      PROVE  RebuildCovers'
  <2>1. CASE Begin(q)
    BY <2>1 DEF At, Begin, Now, OthersUnchanged
  <2>2. CASE ReadWatermark(q)
    BY <2>2 DEF At, ReadWatermark, OthersUnchanged
  <2>3. CASE ReadSuspects(q)
    BY <2>3 DEF At, ReadSuspects, Drop, OthersUnchanged
  <2>4. CASE Fresh(q)
    BY <2>4 DEF At, Fresh, Return, Drop, OthersUnchanged
  <2>5. CASE WatermarkTooOld(q)
    BY <2>5 DEF At, WatermarkTooOld, OthersUnchanged
  <2>6. CASE RequestVerification(q)
    BY <2>6 DEF At, RequestVerification, OthersUnchanged
  <2>7. CASE RepairInline(q)
    BY <2>7 DEF At, RepairInline, OthersUnchanged
  <2>8. CASE Degrade(q)
    BY <2>8 DEF At, Degrade, Note, Return, Drop, OthersUnchanged
  <2>9. CASE Verified(q)
    BY <2>9 DEF At, Verified, Now, OthersUnchanged
  <2>10. CASE VerificationTimesOut(q)
    BY <2>10 DEF At, VerificationTimesOut, Note, Return, Drop, OthersUnchanged
  <2>11. CASE InlineRepair(q)
    BY <2>11 DEF At, InlineRepair, Apply, Covers, Return
  <2>12. CASE ClearRepaired(q)
    BY <2>12 DEF At, ClearRepaired, ClearSuspectsThrough, OthersUnchanged
  <2> QED
    BY <1>13, <2>1, <2>2, <2>3, <2>4, <2>5, <2>6, <2>7, <2>8, <2>9, <2>10, <2>11, <2>12 DEF Barrier
<1> QED
  BY <1>1, <1>2, <1>3, <1>4, <1>5, <1>6, <1>7, <1>8, <1>9, <1>10, <1>11, <1>12, <1>13 DEF Next

\* The suspects that a barrier clears when it has repaired are in the index, although it has read the
\* log in three steps (run_barrier).
LEMMA BarrierStep ==
  ASSUME ~TornReads, TypeOK, TypeOK', NothingHidden, NothingHidden', BarriersCover,
         RebuildCovers, [Next]_vars
  PROVE  BarriersCover'
<1> USE MarksDiffer DEF TypeOK, NothingHidden, BarriersCover, RebuildCovers, Lacking, Excused, markVars,
       feedVars, scanVars, rebuildVars, queryVars
<1>1. CASE UNCHANGED vars
  BY <1>1 DEF vars
<1>2. ASSUME NEW f \in Files, Write(f)
      PROVE  BarriersCover'
  BY <1>2 DEF Write
<1>3. CASE Absorb
  BY <1>3 DEF Absorb, NotePaths
<1>4. CASE CheckPending
  BY <1>4 DEF CheckPending, BumpWatermark, Wake
<1>5. ASSUME NEW asked \in BOOLEAN, ScanBegins(asked)
      PROVE  BarriersCover'
  BY <1>5 DEF ScanBegins, Now
<1>6. CASE ScanLooks
  BY <1>6 DEF ScanLooks
<1>7. CASE ScanEnds
  BY <1>7 DEF ScanEnds, NoteVerified, Wake
<1>8. CASE ReindexApplies
  BY <1>8 DEF ReindexApplies, Apply, Covers
<1>9. CASE RebuildStarts
  BY <1>9 DEF RebuildStarts, Now
<1>10. CASE RebuildReads
  BY <1>10 DEF RebuildReads
<1>11. CASE RebuildPublishes
  BY <1>11 DEF RebuildPublishes, Covers
<1>12. CASE RebuildEnds
  BY <1>12 DEF RebuildEnds, ClearSuspectsThrough, Drop
<1>13. ASSUME NEW q \in Queries, Barrier(q)
      PROVE  BarriersCover'
  <2>1. CASE Begin(q)
    BY <2>1 DEF At, Begin, Now, OthersUnchanged
  <2>2. CASE ReadWatermark(q)
    BY <2>2 DEF At, ReadWatermark, OthersUnchanged
  <2>3. CASE ReadSuspects(q)
    BY <2>3 DEF At, ReadSuspects, Drop, OthersUnchanged
  <2>4. CASE Fresh(q)
    BY <2>4 DEF At, Fresh, Return, Drop, OthersUnchanged
  <2>5. CASE WatermarkTooOld(q)
    BY <2>5 DEF At, WatermarkTooOld, OthersUnchanged
  <2>6. CASE RequestVerification(q)
    BY <2>6 DEF At, RequestVerification, OthersUnchanged
  <2>7. CASE RepairInline(q)
    BY <2>7 DEF At, RepairInline, OthersUnchanged
  <2>8. CASE Degrade(q)
    BY <2>8 DEF At, Degrade, Note, Return, Drop, OthersUnchanged
  <2>9. CASE Verified(q)
    BY <2>9 DEF At, Verified, Now, OthersUnchanged
  <2>10. CASE VerificationTimesOut(q)
    BY <2>10 DEF At, VerificationTimesOut, Note, Return, Drop, OthersUnchanged
  <2>11. CASE InlineRepair(q)
    BY <2>11 DEF At, InlineRepair, Apply, Covers, Return
  <2>12. CASE ClearRepaired(q)
    BY <2>12 DEF At, ClearRepaired, ClearSuspectsThrough, OthersUnchanged
  <2> QED
    BY <1>13, <2>1, <2>2, <2>3, <2>4, <2>5, <2>6, <2>7, <2>8, <2>9, <2>10, <2>11, <2>12 DEF Barrier
<1> QED
  BY <1>1, <1>2, <1>3, <1>4, <1>5, <1>6, <1>7, <1>8, <1>9, <1>10, <1>11, <1>12, <1>13 DEF Next

\* What was due when a barrier began is among the paths it reads, whoever clears suspects meanwhile.
LEMMA DueStep ==
  ASSUME ~TornReads, TypeOK, TypeOK', NothingHidden, NothingHidden', BarriersCover,
         RebuildCovers, DueIsRead, [Next]_vars
  PROVE  DueIsRead'
<1> USE MarksDiffer DEF TypeOK, NothingHidden, BarriersCover, RebuildCovers, DueIsRead, Lacking, Excused,
       markVars, feedVars, scanVars, rebuildVars, queryVars
<1>1. CASE UNCHANGED vars
  BY <1>1 DEF vars
<1>2. ASSUME NEW f \in Files, Write(f)
      PROVE  DueIsRead'
  BY <1>2 DEF Write
<1>3. CASE Absorb
  BY <1>3 DEF Absorb, NotePaths
<1>4. CASE CheckPending
  BY <1>4 DEF CheckPending, BumpWatermark, Wake
<1>5. ASSUME NEW asked \in BOOLEAN, ScanBegins(asked)
      PROVE  DueIsRead'
  BY <1>5 DEF ScanBegins, Now
<1>6. CASE ScanLooks
  BY <1>6 DEF ScanLooks
<1>7. CASE ScanEnds
  BY <1>7 DEF ScanEnds, NoteVerified, Wake
<1>8. CASE ReindexApplies
  BY <1>8 DEF ReindexApplies, Apply, Covers
<1>9. CASE RebuildStarts
  BY <1>9 DEF RebuildStarts, Now
<1>10. CASE RebuildReads
  BY <1>10 DEF RebuildReads
<1>11. CASE RebuildPublishes
  BY <1>11 DEF RebuildPublishes, Covers
<1>12. CASE RebuildEnds
  BY <1>12 DEF RebuildEnds, ClearSuspectsThrough, Drop
<1>13. ASSUME NEW q \in Queries, Barrier(q)
      PROVE  DueIsRead'
  <2>1. CASE Begin(q)
    BY <2>1 DEF At, Begin, Now, OthersUnchanged
  <2>2. CASE ReadWatermark(q)
    BY <2>2 DEF At, ReadWatermark, OthersUnchanged
  <2>3. CASE ReadSuspects(q)
    BY <2>3 DEF At, ReadSuspects, Drop, OthersUnchanged
  <2>4. CASE Fresh(q)
    BY <2>4 DEF At, Fresh, Return, Drop, OthersUnchanged
  <2>5. CASE WatermarkTooOld(q)
    BY <2>5 DEF At, WatermarkTooOld, OthersUnchanged
  <2>6. CASE RequestVerification(q)
    BY <2>6 DEF At, RequestVerification, OthersUnchanged
  <2>7. CASE RepairInline(q)
    BY <2>7 DEF At, RepairInline, OthersUnchanged
  <2>8. CASE Degrade(q)
    BY <2>8 DEF At, Degrade, Note, Return, Drop, OthersUnchanged
  <2>9. CASE Verified(q)
    BY <2>9 DEF At, Verified, Now, OthersUnchanged
  <2>10. CASE VerificationTimesOut(q)
    BY <2>10 DEF At, VerificationTimesOut, Note, Return, Drop, OthersUnchanged
  <2>11. CASE InlineRepair(q)
    BY <2>11 DEF At, InlineRepair, Apply, Covers, Return
  <2>12. CASE ClearRepaired(q)
    BY <2>12 DEF At, ClearRepaired, ClearSuspectsThrough, OthersUnchanged
  <2> QED
    BY <1>13, <2>1, <2>2, <2>3, <2>4, <2>5, <2>6, <2>7, <2>8, <2>9, <2>10, <2>11, <2>12 DEF Barrier
<1> QED
  BY <1>1, <1>2, <1>3, <1>4, <1>5, <1>6, <1>7, <1>8, <1>9, <1>10, <1>11, <1>12, <1>13 DEF Next

-----------------------------------------------------------------------------
\* The theorems

LEMMA AlwaysCovered ==
  ASSUME ~TornReads
  PROVE  Spec => []Covered
<1>1. Init => Covered
  BY CoveredInit
<1>2. TypeOK /\ TypeOK' /\ Covered /\ [Next]_vars => Covered'
  <2> SUFFICES ASSUME TypeOK, TypeOK', Covered, [Next]_vars
               PROVE  Covered'
    OBVIOUS
  <2>1. Underway' /\ WillBeChecked' /\ ScanCovers'
    BY UnderwayStep, PendsStep, ScanStep DEF Covered
  <2>2. NothingHidden'
    BY SuspectsStep DEF Covered
  <2>3. RebuildCovers' /\ BarriersCover' /\ DueIsRead'
    BY <2>2, RebuildStep, BarrierStep, DueStep DEF Covered
  <2> QED
    BY <2>1, <2>2, <2>3 DEF Covered
<1> QED
  BY <1>1, <1>2, TypeCorrect, PTL DEF Spec

\* Whatever the log was told of and the index lacks is a suspect after the watermark, for the next
\* query to see, if applies keep up with checks (note_verified, bump_watermark).
THEOREM SuspectsAreKept ==
  ASSUME Prompt, ~TornReads
  PROVE  Spec => []SuspectsCover
<1>1. Covered => SuspectsCover
  BY DEF Covered, NothingHidden, Lacking, Excused, SuspectsCover
<1> QED
  BY <1>1, AlwaysCovered, PTL

\* What an answer without a note may miss, however far the throttled reindex thread lags behind the
\* checks: a write that a check has already sent to it.
MissesOnlyQueued == \A q \in Queries : pc[q] = "idle" => due[q] \subseteq queue

\* An answer without a note misses no noted write but those on their way to the index, for any number
\* of queries that repair and clear at the same time (run_barrier, for_each_reindex_batch).
THEOREM AnswersMissOnlyTheQueue ==
  ASSUME ~TornReads
  PROVE  Spec => []MissesOnlyQueued
<1>1. Covered => MissesOnlyQueued
  BY DEF Covered, DueIsRead, Excused, MissesOnlyQueued
<1> QED
  BY <1>1, AlwaysCovered, PTL

\* So it contains every write the log had been told of when its barrier began, if each change set is
\* applied before the next check ends (run_barrier).
THEOREM AnswersAreFresh ==
  ASSUME Prompt, ~TornReads
  PROVE  Spec => []FreshAnswers
<1>1. Covered => FreshAnswers
  BY DEF Covered, DueIsRead, Excused, FreshAnswers
<1> QED
  BY <1>1, AlwaysCovered, PTL
=============================================================================
