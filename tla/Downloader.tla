----------------------------- MODULE Downloader -----------------------------
(***************************************************************************)
(* The transport of the serial downloader (bluetrum_download.py, class     *)
(* FramedUart): after a synchronisation, packets with a sequence number   *)
(* modulo 256, each acknowledged, and polls for blocks of an answer.  The  *)
(* line loses and damages what is on it.  The host repeats a packet or a   *)
(* poll only when it is told so (2D); anything else ends the session.      *)
(*                                                                         *)
(* The target is the chip's ROM, as the host must assume it: a packet or   *)
(* poll with the last sequence number is a repetition, and an acknowledge- *)
(* ment is not damaged into a positive one.                                *)
(***************************************************************************)
EXTENDS Naturals, Sequences

CONSTANTS
    SEQUENCES,               \* the sequence numbers: 256
    RETRIES,            \* three
    MESSAGES            \* bound: packets and polls of a session

ASSUME DownloaderAssumption == SEQUENCES \in Nat \ {0, 1} /\ RETRIES \in Nat \ {0} /\ MESSAGES \in Nat

VARIABLES
    seq,                \* self.sequence
    phase,              \* "idle", waiting in "send" or "receive", or "failed"
    attempt,            \* packets sent for this payload
    sent,               \* packets send() was called for; the last is on its way
    got,                \* the blocks receive() returned
    line,               \* what is on the wire, as a set of at most one message
    last_seq,           \* the target: the last sequence number
    accepted, block     \* packets it has accepted, the block it answers with

dlvars == <<seq, phase, attempt, sent, got, line, last_seq, accepted, block>>
host == <<seq, phase, attempt, sent, got>>
target == <<last_seq, accepted, block>>

DlInit ==
    /\ seq = 0 /\ phase = "idle" /\ attempt = 0 /\ sent = 0 /\ got = <<>>
    /\ line = {} /\ last_seq = 0 /\ accepted = <<>> /\ block = 0

Message(kind, n, body) == [kind |-> kind, seq |-> n, body |-> body]
Frame == Message("4B", seq, sent)
Poll == Message("B4", seq, 0)
\* One message is on its way at a time: writing replaces what was on the wire.
Put1(m) == line' = {m}
-----------------------------------------------------------------------------
\* A session begins: the input is flushed, what comes late is not the token.
synchronize ==
    /\ phase \in {"idle", "failed"} /\ phase' = "idle"
    /\ seq' = 0 /\ attempt' = 0 /\ sent' = 0 /\ got' = <<>> /\ line' = {}
    /\ last_seq' = 0 /\ accepted' = <<>> /\ block' = 0

next_sequence == seq' = (seq + 1) % SEQUENCES

send ==
    /\ phase = "idle" /\ sent + Len(got) < MESSAGES
    /\ next_sequence /\ sent' = sent + 1 /\ phase' = "send" /\ attempt' = 1
    /\ Put1(Message("4B", seq', sent'))
    /\ UNCHANGED <<got, target>>

receive ==
    /\ phase = "idle" /\ sent + Len(got) < MESSAGES
    /\ next_sequence /\ phase' = "receive"
    /\ Put1(Message("B4", seq', 0))
    /\ UNCHANGED <<sent, attempt, got, target>>

\* What the host reads; a sequence number that is not its own ends the session.
Read(kinds) == \E m \in line : m.kind \in kinds /\ m.seq = seq

Acknowledged ==
    /\ phase = "send" /\ Read({"1E", "3C"})
    /\ phase' = "idle" /\ line' = {}
    /\ UNCHANGED <<seq, attempt, sent, got, target>>

\* A repetition that takes the next sequence number: a mutant.
Repeat_next ==
    /\ phase = "send" /\ Read({"2D"}) /\ attempt < RETRIES
    /\ attempt' = attempt + 1 /\ next_sequence /\ Put1(Message("4B", seq', sent))
    /\ UNCHANGED <<phase, sent, got, target>>

\* An explicit refusal: the same packet, with the same sequence number.
Repeat ==
    /\ phase = "send" /\ Read({"2D"}) /\ attempt < RETRIES
    /\ attempt' = attempt + 1 /\ Put1(Frame)
    /\ UNCHANGED <<seq, phase, sent, got, target>>

\* Not ready: the same poll, until the deadline.
PollAgain ==
    /\ phase = "receive" /\ Read({"2D"})
    /\ Put1(Poll)
    /\ UNCHANGED <<host, target>>

Received ==
    /\ phase = "receive"
    /\ \E m \in line : m.kind = "data" /\ m.seq = seq /\ got' = Append(got, m.body)
    /\ phase' = "idle" /\ line' = {}
    /\ UNCHANGED <<seq, attempt, sent, target>>

\* Nothing came in time, a damaged answer, too many refusals, the deadline.
Abort ==
    /\ phase \in {"send", "receive"} /\ phase' = "failed"
    /\ UNCHANGED <<seq, attempt, sent, got, line, target>>

-----------------------------------------------------------------------------
(* The line and the target (external).                                     *)
Lose == line # {} /\ line' = {} /\ UNCHANGED <<host, target>>

Damage ==
    /\ \E m \in line :
        \/ m.kind = "4B" /\ Put1(Message("damaged 4B", m.seq, m.body))
        \/ m.kind \in {"1E", "3C"} /\ Put1(Message("2D", m.seq, 0))
    /\ UNCHANGED <<host, target>>

\* A packet: refused without effect, accepted, or known already.  A slow target
\* may refuse the first time and have accepted it.
TargetPacket ==
    /\ \E m \in line :
        \/ m.kind \in {"4B", "damaged 4B"} /\ Put1(Message("2D", m.seq, 0)) /\ UNCHANGED target
        \/ /\ m.kind = "4B" /\ m.seq = last_seq
           /\ Put1(Message("3C", m.seq, 0)) /\ UNCHANGED target
        \/ /\ m.kind = "4B" /\ m.seq # last_seq
           /\ last_seq' = m.seq /\ accepted' = Append(accepted, m.body) /\ UNCHANGED block
           /\ \E kind \in {"1E", "2D"} : Put1(Message(kind, m.seq, 0))
    /\ UNCHANGED host

TargetPoll ==
    /\ \E m \in line :
        /\ m.kind = "B4" /\ UNCHANGED accepted
        /\ \/ Put1(Message("2D", m.seq, 0)) /\ UNCHANGED <<last_seq, block>>
           \/ /\ last_seq' = m.seq /\ block' = IF m.seq = last_seq THEN block ELSE block + 1
              /\ Put1(Message("data", m.seq, block'))
    /\ UNCHANGED host

DlNext ==
    \/ synchronize \/ send \/ receive \/ Acknowledged \/ Repeat \/ PollAgain \/ Received \/ Abort
    \/ Lose \/ Damage \/ TargetPacket \/ TargetPoll

DlSpec == DlInit /\ [][DlNext]_dlvars

-----------------------------------------------------------------------------
DlTypeOK ==
    /\ seq \in 0..(SEQUENCES - 1) /\ last_seq \in 0..(SEQUENCES - 1)
    /\ phase \in {"idle", "send", "receive", "failed"} /\ attempt \in 0..RETRIES
    /\ sent \in 0..MESSAGES /\ block \in Nat
    /\ got \in Seq(Nat) /\ accepted \in Seq(Nat)

\* Host and target stay in step: every packet is accepted once and in order,
\* those send() returned for among them, and receive() returns every block of an
\* answer once, although packets, polls and answers are lost, damaged, repeated.
InStep ==
    /\ accepted = [i \in 1..Len(accepted) |-> i]
    /\ Len(accepted) \in {sent, IF phase \in {"send", "failed"} THEN sent - 1 ELSE sent}
    /\ got = [i \in 1..Len(got) |-> i]
=============================================================================
