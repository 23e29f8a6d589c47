---------------------------- MODULE MCInputEvents ----------------------------
(***************************************************************************)
(* The two drivers that keep an event ring, side by side: a behaviour is   *)
(* one of the infrared receiver or one of the board keys.                  *)
(***************************************************************************)
EXTENDS IrReceiver, BoardKeys, TLC

VARIABLE part

InputInit == part \in {"infrared", "keys"} /\ Init /\ KeysInit

InputSpec ==
    /\ InputInit
    /\ [][\/ part = "infrared" /\ Next /\ UNCHANGED <<keyvars, part>>
          \/ part = "keys" /\ KeysNext /\ UNCHANGED <<vars, part>>]_<<vars, keyvars, part>>

\* The infrared driver compares received words for equality only.
WordSymmetry == Permutations(Words)

\* Two states have the same futures for the event streams of the keys when they
\* differ in the time history, in a time nothing will compare any more, in a level
\* whose turn is over, or by a shift of the tick, of the ring or of the counter.
ChangedAgo(k) == IF candidate[k] # pressed[k] THEN Elapsed(tick, changed[k]) ELSE 0
DownAgo(k) == IF pressed[k] /\ ~long_sent[k] THEN Elapsed(tick, down[k]) ELSE 0
LevelLeft(k) == IF scan = -1 \/ (scan \in Keys /\ k >= scan) THEN levels[k] ELSE "ERROR"
KeysView ==
    <<scan, since_poll, candidate, pressed, long_sent,
      [k \in Keys |-> <<ChangedAgo(k), DownAgo(k), LevelLeft(k), last[k].kind>>],
      IF scan \in Keys THEN Elapsed(tick, now) ELSE 0,
      Contents(ring), RingOK(ring), ring.dropped # seen_dropped, missed>>
InputView == IF part = "infrared" THEN <<part, vars>> ELSE <<part, KeysView>>
=============================================================================
