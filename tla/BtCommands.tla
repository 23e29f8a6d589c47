------------------------------ MODULE BtCommands ------------------------------
(***************************************************************************)
(* The diagnostic mode of the controller's worker (drv_btctrl.c): HCI      *)
(* commands one by one, each answered within two seconds or given up.  A   *)
(* command that was given up is still with the controller: it may be       *)
(* executed later, and its answer may arrive while another command waits.  *)
(* The worker keeps what it believes in advertising and scanning.          *)
(*                                                                         *)
(* The controller is the vendor's: it executes its commands in order while *)
(* the worker pumps it, and answers each once, with success or an error.   *)
(* Its transport (bt_hct_transport_recovered.c) has five credits, one for  *)
(* each command that is not answered; without one it drops the command,    *)
(* and drv_bt_hci_cmd answers true all the same.  The worker counts no     *)
(* credits.                                                                *)
(***************************************************************************)
EXTENDS Naturals, Sequences

CONSTANT CREDITS        \* commands the controller takes: five

ASSUME CommandsAssumption == CREDITS \in Nat \ {0}

VARIABLES
    request,            \* what the shell asks for, or "none"
    at,                 \* the worker: idle, sending, or waiting for an answer
    todo,               \* the commands to go, first the one that waits
    expected,           \* opcode of the command sent last, or "none"
    matched, result,    \* an answer with that opcode came; it was success
    advertising, scanning, hci_passed,
    inbox,              \* commands the controller has not executed yet
    adv_on, scan_on     \* the controller's own state

cmdvars == <<request, at, todo, expected, matched, result, advertising, scanning,
             hci_passed, inbox, adv_on, scan_on>>
worker_state == <<advertising, scanning, hci_passed>>
controller == <<adv_on, scan_on>>

\* Opcode and what the command switches to: only the enables have an effect.
Cmd(op, on) == [op |-> op, on |-> on]
AdvOff == Cmd("0x200a", FALSE)
ScanOff == Cmd("0x200c", FALSE)
Bringup == <<Cmd("0x0c03", FALSE), Cmd("0x1001", FALSE), Cmd("0x1009", FALSE), Cmd("0x2002", FALSE)>>
AdvStart == <<Cmd("0x2005", FALSE), Cmd("0x2006", FALSE), Cmd("0x2008", FALSE), Cmd("0x200a", TRUE)>>
ScanStart == <<Cmd("0x0c01", FALSE), Cmd("0x200b", FALSE), Cmd("0x200c", TRUE)>>
Requests == {"adv", "advoff", "scan", "scanoff"}

CmdInit ==
    /\ request = "none" /\ at = "send" /\ todo = Bringup
    /\ expected = "none" /\ matched = FALSE /\ result = FALSE
    /\ advertising = FALSE /\ scanning = FALSE /\ hci_passed = FALSE
    /\ inbox = <<>> /\ adv_on = FALSE /\ scan_on = FALSE

-----------------------------------------------------------------------------
\* The shell: after the bring-up, and one request at a time.
btctl ==
    /\ hci_passed /\ request = "none"
    /\ request' \in Requests
    /\ UNCHANGED <<at, todo, expected, matched, result, worker_state, inbox, controller>>

Turn(active, off) == IF active THEN <<off>> ELSE <<>>

\* advertise and scan: what has to be switched off, then the new mode.
Plan(r) ==
    CASE r = "adv"     -> IF scanning THEN <<>> ELSE Turn(advertising, AdvOff) \o AdvStart
      [] r = "advoff"  -> IF scanning THEN <<>> ELSE Turn(advertising, AdvOff)
      [] r = "scan"    -> Turn(advertising, AdvOff) \o Turn(scanning, ScanOff) \o ScanStart
      [] r = "scanoff" -> Turn(advertising, AdvOff) \o Turn(scanning, ScanOff)

\* The worker has nothing to send any more.
Finish == at' = "idle" /\ todo' = <<>> /\ request' = "none"

TakeRequest ==
    /\ at = "idle" /\ request # "none"
    /\ IF Plan(request) = <<>> THEN Finish
       ELSE at' = "send" /\ todo' = Plan(request) /\ UNCHANGED request
    /\ UNCHANGED <<expected, matched, result, worker_state, inbox, controller>>

\* The loop of a worker without a request: it pumps an idle controller.
IdleLoop == at = "idle" /\ UNCHANGED cmdvars

\* hct_send_command: a command that finds no credit is dropped.
hct_send_command(c) ==
    IF Len(inbox) < CREDITS THEN inbox' = Append(inbox, c) ELSE UNCHANGED inbox

\* command_data: the answer seen so far no longer counts.
Send ==
    /\ at = "send" /\ at' = "wait"
    /\ expected' = Head(todo).op /\ matched' = FALSE
    /\ hct_send_command(Head(todo))
    /\ UNCHANGED <<request, todo, result, worker_state, controller>>

\* pump: the controller executes its oldest command and receive sees the
\* answer, perhaps of a command that was given up: it knows the opcode only.
PumpController ==
    /\ inbox # <<>> /\ inbox' = Tail(inbox)
    /\ \E ok \in BOOLEAN :
        /\ adv_on' = IF ok /\ Head(inbox).op = "0x200a" THEN Head(inbox).on ELSE adv_on
        /\ scan_on' = IF ok /\ Head(inbox).op = "0x200c" THEN Head(inbox).on ELSE scan_on
        /\ IF Head(inbox).op = expected
           THEN matched' = TRUE /\ result' = ok
           ELSE UNCHANGED <<matched, result>>
    /\ UNCHANGED <<request, at, todo, expected, worker_state>>

\* Success: what the worker now believes, and the next command.
Answered ==
    /\ at = "wait" /\ matched /\ result
    /\ advertising' = IF expected = "0x200a" THEN Head(todo).on ELSE advertising
    /\ scanning' = IF expected = "0x200c" THEN Head(todo).on ELSE scanning
    /\ hci_passed' = (hci_passed \/ Tail(todo) = <<>>)
    /\ IF Tail(todo) = <<>> THEN Finish
       ELSE at' = "send" /\ todo' = Tail(todo) /\ UNCHANGED request
    /\ UNCHANGED <<expected, matched, result, inbox, controller>>

\* An answer is waited for without a limit: a mutant.
GivenUp_waits ==
    /\ at = "wait" /\ matched /\ ~result
    /\ Finish
    /\ UNCHANGED <<expected, matched, result, worker_state, inbox, controller>>

\* An error, or no answer within two seconds: the rest is not sent.
GivenUp ==
    /\ at = "wait"
    /\ ~matched \/ ~result
    /\ Finish
    /\ UNCHANGED <<expected, matched, result, worker_state, inbox, controller>>

CmdNext ==
    \/ btctl \/ TakeRequest \/ IdleLoop \/ Send \/ PumpController \/ Answered \/ GivenUp

\* Between two commands nothing keeps the worker from going on.
DiagnosticStep == TakeRequest \/ Send \/ Answered \/ GivenUp

-----------------------------------------------------------------------------
Opcodes == {"0x0c03", "0x1001", "0x1009", "0x2002", "0x2005", "0x2006",
            "0x2008", "0x200a", "0x0c01", "0x200b", "0x200c"}
HciCommands == [op : Opcodes, on : BOOLEAN]
CmdTypeOK ==
    /\ request \in Requests \cup {"none"} /\ at \in {"idle", "send", "wait"}
    /\ todo \in Seq(HciCommands) /\ inbox \in Seq(HciCommands)
    /\ expected \in Opcodes \cup {"none"}
    /\ {matched, result, advertising, scanning, hci_passed, adv_on, scan_on} \subseteq BOOLEAN
    /\ Len(inbox) <= CREDITS

\* A request of the shell is done with in the end, so that the next one is not
\* refused, although the controller errs, is late, or never got the command.
DiagnosticReturns == request # "none" ~> request = "none"

\* "PASS" (command_data), and "scan stops advertising by itself" (README.md): when
\* the worker starts or stops to believe that the controller advertises or scans,
\* it is so.  Violated: the answer of an earlier command with the same opcode,
\* which was given up meanwhile, passes for that of the command that waits.
ReportIsTrue ==
    [][/\ advertising' # advertising => adv_on = advertising'
       /\ scanning' # scanning => scan_on = scanning']_cmdvars
=============================================================================
