------------------------------- MODULE MCAudio -------------------------------
(***************************************************************************)
(* The three layers of the audio side, side by side, for each is checked   *)
(* against the service it offers the next one: sound0 against              *)
(* DacOwnership, fm0, which needs it, against FmService, and the radio     *)
(* application, which runs on that.  A behaviour is one of a single layer. *)
(***************************************************************************)
EXTENDS SoundGate, FmReceiver, RadioApp

VARIABLE layer

audiovars == <<layer, vars, fmvars, radiovars>>

OnlySound == layer = "sound" /\ UNCHANGED <<layer, fmvars, radiovars>>
OnlyFm == layer = "fm" /\ UNCHANGED <<layer, vars, radiovars>>
OnlyRadio == layer = "radio" /\ UNCHANGED <<layer, vars, fmvars>>

\* The layers that stand still start in one state.
AudioInit ==
    /\ layer \in {"sound", "fm", "radio"}
    /\ Init /\ FmInit /\ RadioInit
    /\ layer # "sound" => hw = config
    /\ layer # "radio" => led_ready

\* The fairness of each layer, where there is that layer.
AudioSpec ==
    /\ AudioInit
    /\ [][\/ OnlySound /\ Next
          \/ OnlyFm /\ FmNext
          \/ OnlyRadio /\ RadioNext]_audiovars
    /\ WF_audiovars(OnlySound /\ ClientCall)
    /\ WF_audiovars(OnlySound /\ Worker)
    /\ WF_audiovars(OnlySound /\ FmInside)
    /\ WF_audiovars(OnlyFm /\ Wake)
    /\ WF_audiovars(OnlyRadio /\ Main)
    /\ WF_audiovars(OnlyRadio /\ OtherEnds)
    /\ LockFoundFree
=============================================================================
