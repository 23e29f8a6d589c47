------------------------------ MODULE RadioApp ------------------------------
(***************************************************************************)
(* The S2 and infrared radio (app_radio.c, board_led.c), which runs in the *)
(* main thread's 10 ms loop on top of fm0 (FmService).                     *)
(*                                                                         *)
(* main never waits for fm_lock: every call to fm0 is a try that returns   *)
(* -EAGAIN while somebody else holds it.  main (10) is above the shell     *)
(* (20) and only sleeps inside fm0, so a shell command takes effect while  *)
(* main is between two polls, but a poll may find the lock in the hands of *)
(* a command that is still under way.  The Bluetooth threads (5 and 9) are *)
(* above main and interrupt it anywhere.                                   *)
(***************************************************************************)
EXTENDS Naturals

CONSTANTS
    Stations, RadioVolumes, RadioBootVolume,    \* frequencies and volumes of fm0
    Preset, PresetVolume                \* 97.4 MHz and 15 %, one of each

VARIABLES
    fm_running, fm_frequency, fm_volume, fm_error, radio_bt_claimed,  \* fm0
    fm_busy,            \* another thread holds fm_lock
    session,            \* who started what fm0 plays (history)
    wanted, on,         \* radio_state.wanted and .running
    radio_frequency, radio_volume,  \* radio_state
    ir_opened, held,    \* radio_ir_opened, held_raw
    pending,            \* pending_command and its value
    led_ready, led_active,
    radio_pc                  \* main: where in its loop

Fm == INSTANCE FmService WITH
         Frequencies <- Stations, Volumes <- RadioVolumes, BootVolume <- RadioBootVolume,
         running <- fm_running, frequency <- fm_frequency, volume <- fm_volume,
         last_error <- fm_error, bt_claimed <- radio_bt_claimed

None == <<"none">>
PendingCommands == {None} \cup ({"VOLUME"} \X RadioVolumes) \cup ({"TUNE"} \X Stations)

fm    == <<fm_running, fm_frequency, fm_volume, fm_error, radio_bt_claimed, session>>
state == <<wanted, on, radio_frequency, radio_volume>>
input == <<ir_opened, held, pending>>
led   == <<led_ready, led_active>>
radiovars == <<fm, fm_busy, state, input, led, radio_pc>>

RadioInit ==
    /\ Fm!Init /\ fm_busy = FALSE /\ session = "none"
    /\ wanted = FALSE /\ on = FALSE /\ radio_frequency = Preset /\ radio_volume = PresetVolume
    /\ ir_opened = FALSE /\ held = FALSE /\ pending = None
    /\ led_ready \in BOOLEAN /\ led_active = FALSE
    /\ radio_pc = "idle"

Goto(p) == radio_pc' = p

\* ab32_fmrx_try_control: what the call does to fm0 if it gets the lock.
Try(call) == ~fm_busy /\ call /\ UNCHANGED fm_busy
Eagain == fm_busy /\ UNCHANGED <<fm, fm_busy>>
UnchangedFm == UNCHANGED <<fm, fm_busy>>
UnchangedSession == UNCHANGED session
UnchangedService == UNCHANGED <<fm_running, fm_frequency, fm_volume, fm_error, radio_bt_claimed>>

-----------------------------------------------------------------------------
(* app_radio_poll, from one call of fm0 to the next.                       *)

\* Every round begins with the keys; S2 toggles what is wanted.
Poll ==
    /\ radio_pc = "idle"
    /\ wanted' \in BOOLEAN
    /\ Goto(IF wanted' /\ ~on THEN "status" ELSE "led")
    /\ UnchangedFm
    /\ UNCHANGED <<on, radio_frequency, radio_volume, input, led>>

\* A start that does not ask for a session of the shell: a mutant.
StartStatus_any ==
    /\ radio_pc = "status"
    /\ \/ Try(UNCHANGED fm) /\ Goto("volume") /\ UNCHANGED wanted
       \/ Eagain /\ Goto("led") /\ UNCHANGED wanted
    /\ UNCHANGED <<on, radio_frequency, radio_volume, input, led>>

\* radio_start: not while a session of the diagnostic shell plays.
StartStatus ==
    /\ radio_pc = "status"
    /\ \/ Try(UNCHANGED fm) /\ ~fm_running /\ Goto("volume") /\ UNCHANGED wanted
       \/ Try(UNCHANGED fm) /\ fm_running /\ Goto("led") /\ wanted' = FALSE
       \/ Eagain /\ Goto("led") /\ UNCHANGED wanted
    /\ UNCHANGED <<on, radio_frequency, radio_volume, input, led>>

StartVolume ==
    /\ radio_pc = "volume"
    /\ \/ Try(Fm!SetVolume(PresetVolume)) /\ UnchangedSession /\ Goto("start")
       \/ Eagain /\ Goto("led")
    /\ UNCHANGED <<state, input, led>>

StartFm ==
    /\ radio_pc = "start"
    /\ \/ /\ Try(Fm!Start(Preset)) /\ session' = "radio"
          /\ on' = TRUE /\ radio_frequency' = Preset /\ radio_volume' = PresetVolume
          /\ Goto("open") /\ UNCHANGED wanted
       \/ /\ \E e \in {"EBUSY", "ETIMEOUT"} : Try(Fm!Refuse(e))
          /\ UnchangedSession
          /\ wanted' = FALSE /\ Goto("led") /\ UNCHANGED <<on, radio_frequency, radio_volume>>
       \/ Eagain /\ Goto("led") /\ UNCHANGED state
    /\ UNCHANGED <<input, led>>

\* The rest of radio_start: open the infrared receiver, drain it, light the LED.
\* Only the LED can refuse: ir0 has no open of its own, and its START (irrx_control)
\* always succeeds.
StartInput ==
    /\ radio_pc = "open"
    /\ ir_opened' = TRUE /\ held' = FALSE /\ UNCHANGED pending
    /\ wanted' = led_ready /\ led_active' = (led_active \/ led_ready)
    /\ Goto("led")
    /\ UnchangedFm
    /\ UNCHANGED <<on, radio_frequency, radio_volume, led_ready>>

\* A radio that plays without its LED stops.
CheckLed ==
    /\ radio_pc = "led"
    /\ wanted' = (wanted /\ (on => led_active))
    /\ Goto(IF ~on THEN "led_poll" ELSE IF wanted' THEN "sync" ELSE "stop")
    /\ UnchangedFm
    /\ UNCHANGED <<on, radio_frequency, radio_volume, input, led>>

\* radio_ir_stop without its last line: a mutant.
InputStopped_pending == ir_opened' = FALSE /\ held' = FALSE /\ UNCHANGED pending

InputStopped == ir_opened' = FALSE /\ held' = FALSE /\ pending' = None

Silenced == on' = FALSE /\ led_active' = FALSE /\ InputStopped /\ UNCHANGED led_ready

\* Not wanted any more: STOP until it succeeds.
StopFm ==
    /\ radio_pc = "stop"
    /\ \/ Try(Fm!Stop) /\ session' = "none" /\ Silenced
       \/ Eagain /\ UNCHANGED <<on, input, led>>
    /\ Goto("led_poll")
    /\ UNCHANGED <<wanted, radio_frequency, radio_volume>>

\* A sync that forgets that fm0 may have stopped: a mutant.
SyncStatus_values ==
    /\ radio_pc = "sync"
    /\ \/ Try(UNCHANGED fm) /\ radio_frequency' = fm_frequency /\ radio_volume' = fm_volume
       \/ Eagain /\ UNCHANGED <<radio_frequency, radio_volume>>
    /\ UNCHANGED <<wanted, on, input, led>> /\ Goto("input")

\* Every 100 ms: what the shell, a fault or Bluetooth did to fm0.
SyncStatus ==
    /\ radio_pc = "sync"
    /\ \/ /\ Try(UNCHANGED fm) /\ ~fm_running
          /\ wanted' = FALSE /\ Silenced /\ Goto("led_poll")
          /\ UNCHANGED <<radio_frequency, radio_volume>>
       \/ /\ Try(UNCHANGED fm) /\ fm_running
          /\ radio_frequency' = fm_frequency /\ radio_volume' = fm_volume
          /\ UNCHANGED <<wanted, on, input, led>> /\ Goto("input")
       \/ Eagain /\ UNCHANGED <<state, input, led>> /\ Goto("input")

\* A round in which the 100 ms have not passed.
SkipSync ==
    /\ radio_pc = "sync" /\ Goto("input")
    /\ UnchangedFm
    /\ UNCHANGED <<state, input, led>>

\* At most one infrared event, and only when no command waits: radio_remote.
ReadInput ==
    /\ radio_pc = "input"
    /\ \/ UNCHANGED <<held, pending>>
       \/ pending = None /\ held' \in BOOLEAN /\ UNCHANGED pending
       \/ /\ pending = None /\ held' = TRUE
          /\ pending' \in PendingCommands \ {<<"VOLUME", radio_volume>>}
    /\ Goto("apply")
    /\ UnchangedFm
    /\ UNCHANGED <<state, ir_opened, led>>

\* radio_apply_command keeps the command while the lock is busy.
ApplyCommand ==
    /\ radio_pc = "apply"
    /\ \/ /\ pending = None /\ UnchangedFm /\ UNCHANGED <<pending, radio_frequency, radio_volume>>
       \/ /\ pending # None /\ pending[1] = "VOLUME"
          /\ Try(Fm!SetVolume(pending[2])) /\ UnchangedSession
          /\ radio_volume' = pending[2] /\ pending' = None /\ UNCHANGED radio_frequency
       \/ /\ pending # None /\ pending[1] = "TUNE"
          /\ Try(Fm!Tune(pending[2])) /\ UnchangedSession
          /\ radio_frequency' = pending[2] /\ pending' = None /\ UNCHANGED radio_volume
       \/ /\ pending # None /\ pending[1] = "TUNE"
          /\ \/ Try(~fm_running /\ Fm!Refuse("EIO")) /\ UnchangedSession
             \/ Try(Fm!LoseStation) /\ session' = "none"
          /\ pending' = None /\ UNCHANGED <<radio_frequency, radio_volume>>
       \/ pending # None /\ Eagain /\ UNCHANGED <<pending, radio_frequency, radio_volume>>
    /\ Goto("led_poll")
    /\ UNCHANGED <<wanted, on, ir_opened, held, led>>

\* board_led_poll ends the round; a PWM fault turns the LED off for good.
board_led_poll ==
    /\ radio_pc = "led_poll"
    /\ \/ UNCHANGED led
       \/ led_ready /\ led_active /\ led_ready' = FALSE /\ led_active' = FALSE
    /\ Goto("idle")
    /\ UnchangedFm
    /\ UNCHANGED <<state, input>>

-----------------------------------------------------------------------------
(* The other users of fm0 and of radio_state.                              *)

\* The shell's radio start and radio stop, under radio_lock.
radio ==
    /\ radio_pc = "idle"
    /\ wanted' \in BOOLEAN
    /\ UnchangedFm
    /\ UNCHANGED <<on, radio_frequency, radio_volume, input, led, radio_pc>>

\* Somebody's operation on fm0 takes the lock, and ends with its result.
OtherBegins ==
    /\ ~fm_busy /\ fm_busy' = TRUE
    /\ UNCHANGED <<fm, state, input, led, radio_pc>>

ShellEnds ==
    /\ radio_pc = "idle"
    /\ \/ UNCHANGED fm
       \/ \E e \in Fm!Errors : Fm!Refuse(e) /\ UnchangedSession
       \/ \E f \in Stations : Fm!Start(f) /\ session' = "shell"
       \/ \E f \in Stations : Fm!Tune(f) /\ UnchangedSession
       \/ \E v \in RadioVolumes : Fm!SetVolume(v) /\ UnchangedSession
       \/ (Fm!Stop \/ Fm!LoseStation \/ Fm!Interrupt) /\ session' = "none"

BluetoothEnds ==
    \/ Fm!Stop /\ session' = "none"
    \/ Fm!Claim /\ UnchangedSession

OtherEnds ==
    /\ fm_busy /\ fm_busy' = FALSE
    /\ ShellEnds \/ BluetoothEnds
    /\ UNCHANGED <<state, input, led, radio_pc>>

-----------------------------------------------------------------------------
Main ==
    \/ Poll \/ StartStatus \/ StartVolume \/ StartFm \/ StartInput \/ CheckLed
    \/ StopFm \/ SyncStatus \/ SkipSync \/ ReadInput \/ ApplyCommand \/ board_led_poll

RadioNext == Main \/ radio \/ OtherBegins \/ OtherEnds

\* Nothing synchronises the operations of the others with the 10 ms loop: of
\* infinitely many tries of one kind, some find fm_lock free (and some syncs find
\* the 100 ms passed).
LockFoundFree ==
    /\ []<>(radio_pc = "status") => []<><<~fm_busy /\ StartStatus>>_radiovars
    /\ []<>(radio_pc = "volume") => []<><<~fm_busy /\ StartVolume>>_radiovars
    /\ []<>(radio_pc = "start") => []<><<~fm_busy /\ StartFm>>_radiovars
    /\ []<>(radio_pc = "stop") => []<><<~fm_busy /\ StopFm>>_radiovars
    /\ []<>(radio_pc = "sync") => []<><<~fm_busy /\ SyncStatus>>_radiovars

\* main loops for ever and an operation on fm0 ends.
RadioSpec ==
    /\ RadioInit /\ [][RadioNext]_radiovars
    /\ WF_radiovars(Main) /\ WF_radiovars(OtherEnds) /\ LockFoundFree

-----------------------------------------------------------------------------
RadioTypeOK ==
    /\ fm_running \in BOOLEAN /\ fm_frequency \in Stations \cup {Fm!Off}
    /\ fm_volume \in RadioVolumes /\ fm_error \in Fm!Errors \cup {"EOK"}
    /\ radio_bt_claimed \in BOOLEAN
    /\ fm_busy \in BOOLEAN /\ session \in {"none", "radio", "shell"}
    /\ wanted \in BOOLEAN /\ on \in BOOLEAN
    /\ radio_frequency \in Stations /\ radio_volume \in RadioVolumes
    /\ ir_opened \in BOOLEAN /\ held \in BOOLEAN /\ pending \in PendingCommands
    /\ led_ready \in BOOLEAN /\ led_active \in BOOLEAN
    /\ radio_pc \in {"idle", "status", "volume", "start", "open", "led", "stop", "sync",
               "input", "apply", "led_poll"}

\* Off is off: no fm0 session of its own that plays on, no infrared receiver
\* left open, no key held, no command that a later session would execute, no LED.
OffIsOff ==
    /\ fm_running /\ session = "radio" => on
    /\ ~on => ~ir_opened /\ ~held /\ pending = None /\ ~led_active

\* A radio that is off never touches a session of the diagnostic shell (the
\* comment in radio_start), not its volume either.
NoTakeOver == [][Main /\ ~on /\ fm_running => UNCHANGED fm]_radiovars

\* The session follows what is wanted and what it needs.  A start is answered:
\* the radio is on or has given up.  A radio that is not wanted goes off, however
\* often fm0 is busy; so does one whose fm0 was stopped under it by anyone, and
\* one whose LED failed.
SessionFollows ==
    /\ wanted /\ ~on ~> on \/ ~wanted
    /\ on /\ ~wanted ~> ~on \/ wanted
    /\ on /\ ~fm_running ~> ~on \/ fm_running
    /\ on /\ ~led_active ~> ~on \/ led_active
=============================================================================
