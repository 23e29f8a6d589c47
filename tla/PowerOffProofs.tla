--------------------------- MODULE PowerOffProofs ---------------------------
(***************************************************************************)
(* Proofs about PowerOff, for every set of drivers and wake sources.       *)
(* The invariant says, for each place of a shutdown, which registers are   *)
(* prepared and which are settled: as they were, or known to be lost.      *)
(***************************************************************************)
EXTENDS PowerOff, TLAPS

\* The register is as it was, or its rollback failed and the caller will know.
Settled(r) == regs[r] = saved[r] \/ (r \in unrestored /\ restore)

Untouched == off_policy = off_bridge /\ \A r \in Registers : regs[r] = saved[r]

\* What has been prepared when the shutdown gets to a place.
Prepared ==
    /\ off_pc \in {"prepare CON5", "prepare CON0", "recheck", "cutoff"} => regs["CON3"] = {}
    /\ off_pc \in {"prepare CON0", "recheck", "cutoff", "off the rails"} => regs["CON5"] = {"LDO"}
    /\ off_pc \in {"recheck", "cutoff", "off the rails"} => regs["CON0"] = {}
    /\ off_pc \in {"cutoff", "off the rails"} => off_policy = {"WK_RST"}
    /\ off_pc = "off the rails" => regs["CON3"] = sources

\* What has been rolled back.
RolledBack ==
    /\ off_pc \in Preparing \cup Undoing => regs["CON1"] = saved["CON1"]
    /\ off_pc \in {"undo CON5", "undo CON3", "undone"} => Settled("CON0")
    /\ off_pc \in {"undo CON3", "undone"} => Settled("CON5")
    /\ off_pc = "undone" => Settled("CON3")

IInv ==
    /\ OffTypeOK
    /\ off_pc \in Preparing \cup Gone => off_busy = {}
    /\ off_pc = "checks" => Untouched
    /\ Prepared
    /\ RolledBack

\* The bits power0 changes are bits of its registers.
LEMMA KnownBits == Sources \cup {"INPUT", "LVD", "LDO", "WK_RST"} \subseteq Bits
BY DEF Bits

LEMMA InitIInv == OffInit => IInv
<1>. SUFFICES ASSUME OffInit PROVE IInv
  OBVIOUS
<1>1. PICK con3 \in SUBSET Sources, con0 \in SUBSET {"LVD"}, con1 \in SUBSET {"INPUT"},
           con5 \in SUBSET {"LDO"} :
         regs = [r \in Registers |-> CASE r = "CON0" -> con0 [] r = "CON1" -> con1
                                       [] r = "CON3" -> con3 [] r = "CON5" -> con5]
  BY DEF OffInit
<1>2. regs \in [Registers -> SUBSET Bits]
  BY <1>1, KnownBits DEF Registers
<1>3. OffTypeOK
  BY <1>2, KnownBits DEF OffInit, OffTypeOK, Registers
<1>. QED
  BY <1>3 DEF OffInit, IInv, Prepared, RolledBack, Preparing, Undoing, Gone

\* An update leaves a register of bits, and the other registers alone.
LEMMA UpdateType ==
    ASSUME OffTypeOK, NEW r \in Registers, NEW v \in SUBSET Bits, UpdateFailed(r, v)
    PROVE  /\ regs' \in [Registers -> SUBSET Bits]
           /\ \A q \in Registers \ {r} : regs'[q] = regs[q]
BY DEF OffTypeOK, UpdateFailed, Updated

LEMMA OffValueBits == ASSUME NEW r \in {"CON0", "CON3", "CON5"} PROVE OffValue(r) \in SUBSET Bits
BY KnownBits DEF OffValue

\* Outside a shutdown every command and event is harmless.
LEMMA OutsideSteps ==
    ASSUME IInv,
           \/ OffDriverStarts \/ OffDriverStops \/ LevelChanges \/ Boot
           \/ \E w \in SUBSET Sources : power_update("CON3", w)
           \/ \E w \in SUBSET {"INPUT"} : power_update("CON1", w)
           \/ \E w \in (SUBSET Sources) \ {{}} : power_off(w)
    PROVE  IInv'
<1>. USE DEF IInv, Preparing, Undoing, Gone
<1>1. CASE OffDriverStarts
  BY <1>1 DEF OffDriverStarts, OffTypeOK, Untouched, Prepared, RolledBack, Settled, off_locals
<1>2. CASE OffDriverStops
  BY <1>2 DEF OffDriverStops, OffTypeOK, Untouched, Prepared, RolledBack, Settled, off_locals
<1>3. CASE LevelChanges
  <2>1. levels' \subseteq Sources
    BY <1>3 DEF LevelChanges, OffTypeOK
  <2>2. OffTypeOK'
    BY <1>3, <2>1 DEF LevelChanges, OffTypeOK, off_locals
  <2>. QED
    BY <1>3, <2>1, <2>2 DEF LevelChanges, Untouched, Prepared, RolledBack, Settled, off_locals
<1>4. CASE Boot
  <2>1. off_policy' \subseteq Bits
    BY <1>4, KnownBits DEF Boot
  <2>2. OffTypeOK'
    BY <1>4, <2>1 DEF Boot, ForgetLocals, OffTypeOK, Registers
  <2>. QED
    BY <1>4, <2>2 DEF Boot, Prepared, RolledBack
<1>5. ASSUME NEW r \in {"CON1", "CON3"}, NEW v \in SUBSET Bits, power_update(r, v)
      PROVE  IInv'
  <2>1. off_pc = "idle" /\ off_pc' = "idle" /\ UpdateFailed(r, v) /\ UNCHANGED <<off_busy, levels, off_policy, off_locals>>
    BY <1>5 DEF power_update, UpdateFailed
  <2>2. regs' \in [Registers -> SUBSET Bits]
    BY <2>1, UpdateType DEF Registers
  <2>3. OffTypeOK'
    BY <1>5, <2>1, <2>2 DEF OffTypeOK, off_locals, power_update, TransferError
  <2>. QED
    BY <2>1, <2>3 DEF Prepared, RolledBack
<1>6. CASE \E w \in SUBSET Sources : power_update("CON3", w)
  BY <1>5, <1>6, KnownBits
<1>7. CASE \E w \in SUBSET {"INPUT"} : power_update("CON1", w)
  BY <1>5, <1>7, KnownBits
<1>8. ASSUME NEW w \in SUBSET Sources, power_off(w)
      PROVE  IInv'
  <2>1. OffTypeOK'
    BY <1>8 DEF power_off, OffTypeOK
  <2>. QED
    BY <1>8, <2>1 DEF power_off, Untouched, Prepared, RolledBack
<1>. QED
  BY <1>1, <1>2, <1>3, <1>4, <1>6, <1>7, <1>8

\* A refused shutdown has changed nothing; one that is let in finds no driver.
LEMMA ChecksSteps == ASSUME IInv, OffRefused \/ OffDisarm PROVE IInv'
<1>. USE DEF IInv, Preparing, Undoing, Gone
<1>1. CASE OffRefused
  <2>1. off_pc' = "idle" /\ off_result' \in {"EBUSY", "EINVAL", "ETIMEOUT", "EIO"} /\ ForgetLocals
        /\ UNCHANGED <<off_busy, levels, regs, off_policy>>
    BY <1>1 DEF OffRefused, OffReturn, TransferError
  <2>2. OffTypeOK'
    BY <2>1 DEF OffTypeOK, ForgetLocals
  <2>. QED
    BY <2>1, <2>2 DEF Prepared, RolledBack
<1>2. CASE OffDisarm
  <2>1. OffTypeOK'
    BY <1>2 DEF OffDisarm, OffTypeOK, off_locals
  <2>. QED
    BY <1>2, <2>1 DEF OffDisarm, Untouched, Prepared, RolledBack, Registers, off_locals
<1>. QED
  BY <1>1, <1>2

\* One update of the preparation.
LEMMA PrepareStep ==
    ASSUME IInv,
           NEW r, NEW place, NEW next, Prepare(r, place, next),
           <<r, place, next>> \in {<<"CON3", "prepare CON3", "prepare CON5">>,
                                   <<"CON5", "prepare CON5", "prepare CON0">>,
                                   <<"CON0", "prepare CON0", "recheck">>}
    PROVE  IInv'
<1>. USE DEF IInv, Preparing, Undoing, Gone
<1>1. r \in {"CON0", "CON3", "CON5"} /\ off_pc = place
  BY DEF Prepare
<1>2. UpdateFailed(r, OffValue(r))
  BY DEF Prepare, UpdateFailed
<1>3. /\ regs' \in [Registers -> SUBSET Bits]
      /\ \A q \in Registers \ {r} : regs'[q] = regs[q]
  BY <1>1, <1>2, UpdateType, OffValueBits DEF Registers
<1>4. /\ off_pc' \in {next, "undo CON0"}
      /\ rc' \in {"EOK", "EBUSY", "ETIMEOUT", "EIO"}
      /\ UNCHANGED <<off_result, off_busy, levels, off_policy, sources, saved, off_bridge, restore, unrestored>>
  BY DEF Prepare, TransferError, OffTypeOK
<1>5. OffTypeOK'
  BY <1>1, <1>3, <1>4 DEF OffTypeOK
<1>6. regs'["CON1"] = regs["CON1"]
  BY <1>1, <1>3 DEF Registers
<1>7. off_pc' = next => regs'[r] = OffValue(r)
  BY <1>1 DEF Prepare, Updated, OffTypeOK, Registers
<1>8. Prepared'
  BY <1>1, <1>3, <1>4, <1>7 DEF Prepared, OffValue, Registers
<1>9. RolledBack'
  BY <1>1, <1>4, <1>6 DEF RolledBack
<1>. QED
  BY <1>1, <1>4, <1>5, <1>8, <1>9

\* The last look at the levels and the terminal write.
LEMMA CutoffSteps == ASSUME IInv, OffRecheck \/ ab32_irtc_cutoff_locked PROVE IInv'
<1>. USE DEF IInv, Preparing, Undoing, Gone
<1>1. CASE OffRecheck
  <2>1. OffTypeOK'
    BY <1>1, KnownBits DEF OffRecheck, OffTypeOK
  <2>. QED
    BY <1>1, <2>1 DEF OffRecheck, Prepared, RolledBack
<1>2. CASE ab32_irtc_cutoff_locked
  <2>1. UpdateFailed("CON3", sources) /\ sources \in SUBSET Bits
    BY <1>2, KnownBits DEF ab32_irtc_cutoff_locked, UpdateFailed, OffTypeOK
  <2>2. /\ regs' \in [Registers -> SUBSET Bits]
        /\ \A q \in Registers \ {"CON3"} : regs'[q] = regs[q]
    BY <2>1, UpdateType DEF Registers
  <2>3. OffTypeOK'
    BY <1>2, <2>2 DEF ab32_irtc_cutoff_locked, OffTypeOK, off_locals
  <2>4. off_pc' = "off the rails" => regs'["CON3"] = sources
    BY <1>2 DEF ab32_irtc_cutoff_locked, Updated, OffTypeOK, Registers
  <2>. QED
    BY <1>2, <2>2, <2>3, <2>4 DEF ab32_irtc_cutoff_locked, Prepared, RolledBack, Registers, off_locals
<1>. QED
  BY <1>1, <1>2

\* One register of the rollback.
LEMMA UndoStep ==
    ASSUME IInv,
           NEW r, NEW place, NEW next, Undo(r, place, next),
           <<r, place, next>> \in {<<"CON0", "undo CON0", "undo CON5">>,
                                   <<"CON5", "undo CON5", "undo CON3">>,
                                   <<"CON3", "undo CON3", "undone">>}
    PROVE  IInv'
<1>. USE DEF IInv, Preparing, Undoing, Gone
<1>1. r \in {"CON0", "CON3", "CON5"} /\ r \in Registers /\ saved[r] \in SUBSET Bits
  BY DEF Registers, OffTypeOK
<1>2. off_pc = place /\ off_pc' = next
      /\ UNCHANGED <<off_result, off_busy, levels, off_policy, sources, saved, off_bridge, rc>>
  BY DEF Undo
<1>3. UpdateFailed(r, saved[r])
  BY DEF Undo, UpdateFailed
<1>4. /\ regs' \in [Registers -> SUBSET Bits]
      /\ \A q \in Registers \ {r} : regs'[q] = regs[q]
  BY <1>1, <1>3, UpdateType
<1>5. /\ restore' \in BOOLEAN /\ unrestored' \subseteq Registers
      /\ unrestored \subseteq unrestored' /\ (restore => restore')
  BY <1>1 DEF Undo, OffTypeOK
<1>6. OffTypeOK'
  BY <1>1, <1>2, <1>4, <1>5 DEF OffTypeOK
<1>7. Settled(r)'
  BY <1>1 DEF Undo, Settled, Updated, OffTypeOK
<1>8. \A q \in Registers \ {r} : Settled(q) => Settled(q)'
  BY <1>2, <1>4, <1>5 DEF Settled
<1>9. RolledBack'
  BY <1>1, <1>2, <1>4, <1>7, <1>8 DEF RolledBack, Registers
<1>. QED
  BY <1>1, <1>2, <1>6, <1>9 DEF Prepared

\* The end of the rollback.
LEMMA UndoneStep == ASSUME IInv, OffUndo PROVE IInv'
<1>1. off_pc = "undone" /\ off_pc' = "idle" /\ off_result' \in {"EOK", "EBUSY", "ETIMEOUT", "EIO"}
      /\ off_policy' = off_bridge /\ ForgetLocals /\ UNCHANGED <<off_busy, levels, regs>>
  BY DEF IInv, OffTypeOK, OffUndo, OffReturn
<1>2. OffTypeOK'
  BY <1>1 DEF IInv, OffTypeOK, ForgetLocals
<1>. QED
  BY <1>1, <1>2 DEF IInv, Prepared, RolledBack, Preparing, Undoing, Gone

LEMMA StepIInv == ASSUME IInv, [OffNext]_offvars PROVE IInv'
<1>1. CASE power_off_locked
  <2>1. CASE OffRefused \/ OffDisarm
    BY <2>1, ChecksSteps
  <2>2. CASE \/ Prepare("CON3", "prepare CON3", "prepare CON5")
             \/ Prepare("CON5", "prepare CON5", "prepare CON0")
             \/ Prepare("CON0", "prepare CON0", "recheck")
    BY <2>2, PrepareStep
  <2>3. CASE OffRecheck \/ ab32_irtc_cutoff_locked
    BY <2>3, CutoffSteps
  <2>4. CASE \/ Undo("CON0", "undo CON0", "undo CON5")
             \/ Undo("CON5", "undo CON5", "undo CON3")
             \/ Undo("CON3", "undo CON3", "undone")
    BY <2>4, UndoStep
  <2>5. CASE OffUndo
    BY <2>5, UndoneStep
  <2>. QED
    BY <1>1, <2>1, <2>2, <2>3, <2>4, <2>5 DEF power_off_locked
<1>2. CASE UNCHANGED offvars
  <2>1. OffTypeOK'
    BY <1>2 DEF IInv, OffTypeOK, offvars, off_locals
  <2>2. Prepared'
    BY <1>2 DEF IInv, Prepared, offvars, off_locals
  <2>3. RolledBack'
    BY <1>2 DEF IInv, RolledBack, Settled, offvars, off_locals
  <2>4. off_pc' = "checks" => Untouched'
    BY <1>2 DEF IInv, Untouched, offvars, off_locals
  <2>. QED
    BY <1>2, <2>1, <2>2, <2>3, <2>4 DEF IInv, offvars
<1>3. CASE OffNext /\ ~power_off_locked
  BY <1>3, OutsideSteps DEF OffNext
<1>. QED
  BY <1>1, <1>2, <1>3

\* The inductive invariant holds in every reachable state.
THEOREM Invariant == OffSpec => []IInv
BY InitIInv, StepIInv, PTL DEF OffSpec

-----------------------------------------------------------------------------
\* Type correctness of the shutdown.
THEOREM TypeCorrect == OffSpec => []OffTypeOK
<1>1. IInv => OffTypeOK
  BY DEF IInv
<1>. QED
  BY <1>1, Invariant, PTL

\* The rails go only from under a chip that is ready for it, whichever transfers
\* have failed on the way.
THEOREM CommittedReady == OffSpec => []OffCommitted
<1>1. IInv => OffCommitted
  BY DEF IInv, Prepared, OffCommitted, Gone
<1>. QED
  BY <1>1, Invariant, PTL

\* A step that takes a shutdown back to its caller has undone it.
LEMMA ReturnUndone ==
    ASSUME IInv, [OffNext]_offvars, off_pc # "idle", off_pc' = "idle", off_pc \notin Gone
    PROVE  /\ off_policy' = off_bridge
           /\ \A r \in Registers : regs'[r] = saved[r] \/ (r \in unrestored /\ off_result' = "EIO")
<1>1. OffRefused \/ OffUndo
  <2>1. off_pc' # off_pc
    OBVIOUS
  <2>2. ~(OffDriverStarts \/ OffDriverStops \/ LevelChanges \/ UNCHANGED offvars)
    BY <2>1 DEF OffDriverStarts, OffDriverStops, LevelChanges, offvars
  <2>3. ~Boot /\ ~(\E r, v : power_update(r, v)) /\ ~(\E w : power_off(w))
    BY DEF Boot, Gone, power_update, power_off
  <2>4. ~(OffDisarm \/ OffRecheck \/ ab32_irtc_cutoff_locked)
    BY DEF OffDisarm, OffRecheck, ab32_irtc_cutoff_locked
  <2>5. \A r, p, n : n # "idle" => ~Prepare(r, p, n) /\ ~Undo(r, p, n)
    BY DEF Prepare, Undo
  <2>. QED
    BY <2>2, <2>3, <2>4, <2>5 DEF OffNext, power_off_locked
<1>2. CASE OffRefused
  BY <1>2 DEF IInv, Untouched, OffRefused
<1>3. CASE OffUndo
  <2>1. \A r \in Registers : Settled(r)
    BY <1>3 DEF IInv, RolledBack, OffUndo, Registers, Settled, Undoing
  <2>. QED
    BY <1>3, <2>1 DEF OffUndo, OffReturn, Settled
<1>. QED
  BY <1>1, <1>2, <1>3

\* A shutdown that returns has undone itself or says EIO, for every combination
\* of failures.
THEOREM UndoneOrTold == OffSpec => OffUndone
<1>1. IInv /\ [OffNext]_offvars =>
        [off_pc # "idle" /\ off_pc' = "idle" /\ off_pc \notin Gone =>
           /\ off_policy' = off_bridge
           /\ \A r \in Registers :
                regs'[r] = saved[r] \/ (r \in unrestored /\ off_result' = "EIO")]_offvars
  BY ReturnUndone
<1>. QED
  BY <1>1, Invariant, PTL DEF OffSpec, OffUndone
=============================================================================
