------------------------------ MODULE PowerOff ------------------------------
(***************************************************************************)
(* The shutdown of power0 (drv_power.c) over the RTC bridge (drv_rtc.c):   *)
(* registers are prepared one by one, the last write takes the rails away, *)
(* and until then everything is rolled back.  Commands run one at a time   *)
(* (rtc_lock).  Every transfer on the bridge may fail, a write with or     *)
(* without effect.  A wake or a reset starts the firmware again.           *)
(*                                                                         *)
(* A register is the set of its bits that are 1 and that power0 changes;   *)
(* "INPUT" says that PWKEY is a digital input.  Left out: the status       *)
(* command, the pull-ups, the filter, and the bits power0 only reads: rails*)
(* and VDD are on.                                                         *)
(***************************************************************************)
CONSTANTS
    OffDrivers,        \* those power_blockers asks
    Sources         \* AB32_POWER_WAKE_MASK: "PWKEY", "VUSB", ...

Bits == Sources \cup {"INPUT", "LVD", "LDO", "WK_RST"}
Registers == {"CON0", "CON1", "CON3", "CON5"}

VARIABLES
    off_pc,             \* "idle", or where the shutdown is
    off_result,         \* what the last command returned
    off_busy,           \* drivers whose power_busy says so
    levels,             \* wake inputs that are active: PWKEY pressed, VUSB present
    regs,               \* RTCCON0, 1, 3 and 5
    off_policy,         \* the wake and reset bits of RTCCON
    sources,            \* off->wake_sources
    saved, off_bridge,  \* con0, con1, con3, con5 and bridge: what to restore
    rc, restore,        \* the error that led to the rollback; has that failed too?
    unrestored          \* history: registers whose rollback failed

off_locals == <<sources, saved, off_bridge, rc, restore, unrestored>>
offvars == <<off_pc, off_result, off_busy, levels, regs, off_policy, off_locals>>

OffInit ==
    /\ off_pc = "idle" /\ off_result = "EOK"
    /\ off_busy = {} /\ levels = {}
    /\ \E con3 \in SUBSET Sources, con0 \in SUBSET {"LVD"}, con1 \in SUBSET {"INPUT"},
          con5 \in SUBSET {"LDO"} :
            regs = [r \in Registers |-> CASE r = "CON0" -> con0 [] r = "CON1" -> con1
                                          [] r = "CON3" -> con3 [] r = "CON5" -> con5]
    /\ off_policy \in SUBSET {"WK_RST"}
    /\ sources = {} /\ saved = [r \in Registers |-> {}] /\ off_bridge = {}
    /\ rc = "EOK" /\ restore = FALSE /\ unrestored = {}

-----------------------------------------------------------------------------
\* The scheduler is locked during a shutdown; the wake inputs move at any time.
OffDriverStarts ==
    /\ off_pc = "idle"
    /\ \E d \in OffDrivers \ off_busy : off_busy' = off_busy \cup {d}
    /\ UNCHANGED <<off_pc, off_result, levels, regs, off_policy, off_locals>>

OffDriverStops ==
    /\ off_pc = "idle"
    /\ \E d \in off_busy : off_busy' = off_busy \ {d}
    /\ UNCHANGED <<off_pc, off_result, levels, regs, off_policy, off_locals>>

LevelChanges ==
    /\ \E s \in Sources :
          levels' = IF s \in levels THEN levels \ {s} ELSE levels \cup {s}
    /\ UNCHANGED <<off_pc, off_result, off_busy, regs, off_policy, off_locals>>

-----------------------------------------------------------------------------
TransferError == {"ETIMEOUT", "EIO"}
\* Outside a command its locals mean nothing.
ForgetLocals ==
    /\ sources' = {} /\ saved' = [r \in Registers |-> {}] /\ off_bridge' = {}
    /\ rc' = "EOK" /\ restore' = FALSE /\ unrestored' = {}

OffReturn(error) == off_pc' = "idle" /\ off_result' = error /\ ForgetLocals

\* rtc_update_checked(r, mask, v), which reads back what it wrote: it succeeds,
\* or fails before or after the write.
Updated(r, v) == regs' = [regs EXCEPT ![r] = v]
UpdateFailed(r, v) == Updated(r, v) \/ UNCHANGED regs

\* SET_WAKE and SET_INPUT.
power_update(r, v) ==
    /\ off_pc = "idle"
    /\ \/ Updated(r, v) /\ off_result' = "EOK"
       \/ UpdateFailed(r, v) /\ off_result' \in TransferError
    /\ UNCHANGED <<off_pc, off_busy, levels, off_policy, off_locals>>

\* OFF reaches power_off_locked, which locks the scheduler and reads.
power_off(w) ==
    /\ off_pc = "idle"
    /\ off_pc' = "checks" /\ sources' = w
    /\ saved' = regs /\ off_bridge' = off_policy
    /\ rc' = "EOK" /\ restore' = FALSE /\ unrestored' = {}
    /\ UNCHANGED <<off_result, off_busy, levels, regs, off_policy>>

PwkeyUseless == "PWKEY" \in sources /\ "INPUT" \notin regs["CON1"]
LevelActive == sources \cap levels # {}

\* Blockers, a read that fails, a useless or an active wake source.
OffRefused ==
    /\ off_pc = "checks"
    /\ \/ off_busy # {} /\ OffReturn("EBUSY")
       \/ off_busy = {} /\ \E e \in TransferError : OffReturn(e)
       \/ off_busy = {} /\ PwkeyUseless /\ OffReturn("EINVAL")
       \/ off_busy = {} /\ ~PwkeyUseless /\ LevelActive /\ OffReturn("EBUSY")
    /\ UNCHANGED <<off_busy, levels, regs, off_policy>>

\* power_bridge_policy(0).
OffDisarm ==
    /\ off_pc = "checks" /\ off_busy = {} /\ ~PwkeyUseless /\ ~LevelActive
    /\ off_policy' = {} /\ off_pc' = "prepare CON3"
    /\ UNCHANGED <<off_result, off_busy, levels, regs, off_locals>>

OffValue(r) == IF r = "CON5" THEN {"LDO"} ELSE {}

\* An update that fails is passed over: a mutant.
Prepare_anyway(r, place, next) ==
    /\ off_pc = place /\ off_pc' = next
    /\ UpdateFailed(r, OffValue(r)) /\ rc' = "EOK"
    /\ UNCHANGED <<off_result, off_busy, levels, off_policy, sources, saved, off_bridge, restore, unrestored>>

\* One of the three updates; the first that fails ends the preparation.
Prepare(r, place, next) ==
    /\ off_pc = place
    /\ \/ Updated(r, OffValue(r)) /\ off_pc' = next /\ UNCHANGED rc
       \/ UpdateFailed(r, OffValue(r)) /\ rc' \in TransferError /\ off_pc' = "undo CON0"
    /\ UNCHANGED <<off_result, off_busy, levels, off_policy, sources, saved, off_bridge, restore, unrestored>>

\* The levels again, immediately before the terminal write.
OffRecheck ==
    /\ off_pc = "recheck"
    /\ \/ LevelActive /\ rc' = "EBUSY" /\ off_pc' = "undo CON0" /\ UNCHANGED off_policy
       \/ ~LevelActive /\ off_policy' = {"WK_RST"} /\ off_pc' = "cutoff" /\ UNCHANGED rc
    /\ UNCHANGED <<off_result, off_busy, levels, regs, sources, saved, off_bridge, restore, unrestored>>

\* The write that takes the rails away.  When it fails the watchdog resets the
\* chip: no way leads back to the caller.
ab32_irtc_cutoff_locked ==
    /\ off_pc = "cutoff"
    /\ \/ Updated("CON3", sources) /\ off_pc' = "off the rails"
       \/ UpdateFailed("CON3", sources) /\ off_pc' = "watchdog"
    /\ UNCHANGED <<off_result, off_busy, levels, off_policy, off_locals>>

\* The first rollback that fails ends them: a mutant.
Undo_untilFailure(r, place, next) ==
    /\ off_pc = place
    /\ \/ Updated(r, saved[r]) /\ off_pc' = next /\ UNCHANGED <<restore, unrestored>>
       \/ UpdateFailed(r, saved[r]) /\ restore' = TRUE
          /\ unrestored' = unrestored \cup {r} /\ off_pc' = "undone"
    /\ UNCHANGED <<off_result, off_busy, levels, off_policy, sources, saved, off_bridge, rc>>

\* One register of the rollback; the next one is tried in any case.
Undo(r, place, next) ==
    /\ off_pc = place
    /\ \/ Updated(r, saved[r]) /\ UNCHANGED <<restore, unrestored>>
       \/ UpdateFailed(r, saved[r]) /\ restore' = TRUE /\ unrestored' = unrestored \cup {r}
    /\ off_pc' = next
    /\ UNCHANGED <<off_result, off_busy, levels, off_policy, sources, saved, off_bridge, rc>>

OffUndo ==
    /\ off_pc = "undone"
    /\ off_policy' = off_bridge
    /\ OffReturn(IF restore THEN "EIO" ELSE rc)
    /\ UNCHANGED <<off_busy, levels, regs>>

power_off_locked ==
    \/ OffRefused \/ OffDisarm
    \/ Prepare("CON3", "prepare CON3", "prepare CON5")
    \/ Prepare("CON5", "prepare CON5", "prepare CON0")
    \/ Prepare("CON0", "prepare CON0", "recheck")
    \/ OffRecheck \/ ab32_irtc_cutoff_locked
    \/ Undo("CON0", "undo CON0", "undo CON5")
    \/ Undo("CON5", "undo CON5", "undo CON3")
    \/ Undo("CON3", "undo CON3", "undone")
    \/ OffUndo

\* A wake input or the watchdog starts the firmware again.  The RTC domain has
\* kept its registers; what the boot ROM leaves in RTCCON is not known.
Boot ==
    /\ off_pc \in {"off the rails", "watchdog"}
    /\ off_pc' = "idle" /\ off_result' = "EOK" /\ off_busy' = {}
    /\ off_policy' \in SUBSET {"WK_RST"} /\ ForgetLocals
    /\ UNCHANGED <<levels, regs>>

OffNext ==
    \/ OffDriverStarts \/ OffDriverStops \/ LevelChanges
    \/ \E w \in SUBSET Sources : power_update("CON3", w)
    \/ \E w \in SUBSET {"INPUT"} : power_update("CON1", w)
    \/ \E w \in (SUBSET Sources) \ {{}} : power_off(w)
    \/ power_off_locked \/ Boot

OffSpec == OffInit /\ [][OffNext]_offvars

-----------------------------------------------------------------------------
Preparing == {"prepare CON3", "prepare CON5", "prepare CON0", "recheck", "cutoff"}
Undoing == {"undo CON0", "undo CON5", "undo CON3", "undone"}
Gone == {"off the rails", "watchdog"}

OffTypeOK ==
    /\ off_pc \in {"idle", "checks"} \cup Preparing \cup Undoing \cup Gone
    /\ off_result \in {"EOK", "EBUSY", "EINVAL", "ETIMEOUT", "EIO"}
    /\ off_busy \subseteq OffDrivers /\ levels \subseteq Sources
    /\ regs \in [Registers -> SUBSET Bits] /\ saved \in [Registers -> SUBSET Bits]
    /\ off_policy \subseteq Bits /\ off_bridge \subseteq Bits
    /\ sources \subseteq Sources
    /\ rc \in {"EOK", "EBUSY", "ETIMEOUT", "EIO"} /\ restore \in BOOLEAN
    /\ unrestored \subseteq Registers

\* A shutdown that returns has undone itself: every register and the bridge are
\* as they were, except a register whose own rollback failed, and then the
\* caller is told EIO ("do not claim successful rollback").
OffUndone ==
    [][off_pc # "idle" /\ off_pc' = "idle" /\ off_pc \notin Gone =>
        /\ off_policy' = off_bridge
        /\ \A r \in Registers : regs'[r] = saved[r] \/ (r \in unrestored /\ off_result' = "EIO")]_offvars

\* The rails go only from under a chip that is ready for it: no driver runs, the
\* detector is off, the supply is the LDO, exactly the sources asked for are
\* armed, and they reset the chip.
OffCommitted ==
    off_pc = "off the rails" =>
        /\ off_busy = {}
        /\ regs["CON0"] = {} /\ regs["CON5"] = {"LDO"} /\ regs["CON3"] = sources
        /\ off_policy = {"WK_RST"}
=============================================================================
