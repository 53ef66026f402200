---------------------------- MODULE TruthCapture ----------------------------
(***************************************************************************)
(* run_cdx and recv_all of codex_vm.py: run a program on the guest and keep *)
(* what it prints as a truth.                                               *)
(*                                                                          *)
(* A program prints lines, each after a silence of at most MaxGap ticks.    *)
(* One that faults prints !EXC= ("exc") and the rest of its register dump   *)
(* ("reg") in one burst, then hangs with the socket open.  A tick is        *)
(* FAULT_IDLE_SECONDS / FaultIdle long.                                     *)
(***************************************************************************)
EXTENDS Integers, Sequences

CONSTANTS
  Programs,    \* what the programs print: sequences of "line", "exc", "reg"
  MaxGap,      \* the longest a healthy program computes between two lines
  IdleTimeout, \* idle_timeout
  FaultIdle,   \* FAULT_IDLE_SECONDS
  Overall      \* overall_timeout

ASSUME TruthAssumption ==
  /\ Programs \subseteq Seq({"line", "exc", "reg"})
  /\ MaxGap \in Nat /\ IdleTimeout \in Nat \ {0} /\ FaultIdle \in Nat \ {0}
  /\ Overall \in Nat /\ MaxGap < IdleTimeout

VARIABLES
  program,   \* what this program prints
  sent,      \* tokens printed
  sock,      \* "open", "eof", "error"
  died,      \* QEMU died before the program was through
  got,       \* tokens in buf
  quiet,     \* ticks since the last byte reached the host
  elapsed,   \* ticks since recv_all began
  phase,     \* "reading", "captured", "returned", "raised"
  truncated  \* recv_all.truncated, FALSE for None

vars == <<program, sent, sock, died, got, quiet, elapsed, phase, truncated>>
guestVars == <<program, sent, sock, died>>

buf == SubSeq(program, 1, got)
Faulted(s) == \E i \in DOMAIN s : s[i] = "exc"

Init ==
  /\ program \in Programs
  /\ sent = 0 /\ sock = "open" /\ died = FALSE
  /\ got = 0 /\ quiet = 0 /\ elapsed = 0
  /\ phase = "reading" /\ truncated = FALSE
-----------------------------------------------------------------------------
(* The guest.  Its next line may wait; a dump does not.                     *)
Dumping == Faulted(SubSeq(program, 1, sent))

Prints ==
  /\ sock = "open" /\ sent < Len(program)
  /\ sent' = sent + 1
  /\ UNCHANGED <<program, sock, died, got, quiet, elapsed, phase, truncated>>

(* A program that returns ends QEMU through isa-debug-exit.                 *)
Exit ==
  /\ sock = "open" /\ sent = Len(program) /\ ~Dumping
  /\ sock' = "eof"
  /\ UNCHANGED <<program, sent, died, got, quiet, elapsed, phase, truncated>>

(* QEMU dies under the program: killed, or out of memory.                   *)
Die ==
  /\ sock = "open" /\ phase = "reading" /\ sent < Len(program)
  /\ sock' \in {"eof", "error"}
  /\ died' = TRUE
  /\ UNCHANGED <<program, sent, got, quiet, elapsed, phase, truncated>>
-----------------------------------------------------------------------------
(* recv_all.  Silence is tolerated for the idle timeout; once !EXC= is in   *)
(* the buffer only for the shorter of the two.                              *)
MutPatienceAdds == IF Faulted(buf) THEN IdleTimeout + FaultIdle ELSE IdleTimeout
Tolerance ==
  IF Faulted(buf) /\ FaultIdle < IdleTimeout THEN FaultIdle ELSE IdleTimeout

PastDeadline(t) == t >= Overall

(* A chunk, and the deadline test at the top of the next turn.              *)
Recv ==
  /\ phase = "reading" /\ sock # "error"
  /\ \E n \in got + 1 .. sent : got' = n
  /\ quiet' = 0
  /\ IF PastDeadline(elapsed)
       THEN phase' = "captured" /\ truncated' = TRUE
       ELSE UNCHANGED <<phase, truncated>>
  /\ UNCHANGED <<guestVars, elapsed>>

Silence ==
  /\ phase = "reading" /\ sock = "open" /\ got = sent
  /\ quiet >= Tolerance
  /\ phase' = "captured"
  /\ UNCHANGED <<guestVars, got, quiet, elapsed, truncated>>

MutEofSpins ==
  phase = "reading" /\ sock = "eof" /\ got = sent /\ UNCHANGED vars
Eof ==
  /\ phase = "reading" /\ sock = "eof" /\ got = sent
  /\ phase' = "captured"
  /\ UNCHANGED <<guestVars, got, quiet, elapsed, truncated>>

SocketError ==
  /\ phase = "reading" /\ sock = "error"
  /\ phase' = "captured"
  /\ truncated' = TRUE
  /\ UNCHANGED <<guestVars, got, quiet, elapsed>>

(* run_cdx: a truncated capture is refused, anything else is the truth.     *)
MutBankedAnyway == FALSE
Refused == truncated

Judge ==
  /\ phase = "captured"
  /\ phase' = IF Refused THEN "raised" ELSE "returned"
  /\ UNCHANGED <<guestVars, got, quiet, elapsed, truncated>>

(* Time passes only while the host waits in recv, and never past the next   *)
(* line of a program that is due.                                           *)
Tick ==
  /\ phase = "reading" /\ sock = "open" /\ got = sent
  /\ quiet < Tolerance
  /\ sent < Len(program) => quiet < (IF Dumping THEN 0 ELSE MaxGap)
  /\ quiet' = quiet + 1
  /\ elapsed' = elapsed + 1
  /\ UNCHANGED <<guestVars, got, phase, truncated>>

Over == phase \in {"returned", "raised"} /\ UNCHANGED vars

HostStep == Recv \/ Silence \/ Eof \/ SocketError \/ Judge

Next == HostStep \/ Tick \/ Prints \/ Exit \/ Die \/ Over

Spec == Init /\ [][Next]_vars

(* Time passes, the driver reads on, and a program that is due prints.      *)
FairSpec == Spec /\ WF_vars(HostStep) /\ WF_vars(Tick) /\ WF_vars(Prints)
-----------------------------------------------------------------------------
(* Every variable keeps to its range.                                       *)
TypeOK ==
  /\ program \in Programs /\ sent \in 0 .. Len(program) /\ got \in 0 .. sent
  /\ sock \in {"open", "eof", "error"} /\ died \in BOOLEAN
  /\ quiet \in 0 .. IdleTimeout /\ elapsed \in Nat
  /\ phase \in {"reading", "captured", "returned", "raised"}
  /\ truncated \in BOOLEAN

(* While QEMU lives, whatever is banked as a truth is everything the        *)
(* program printed: neither a silence nor the deadline cuts it short, and   *)
(* of a QEMU that died only an orderly close passes for the end.            *)
TruthIsWhole ==
  phase = "returned" => IF died THEN sock = "eof" ELSE buf = program

(* What makes it so: as long as there is more to come and the host has all  *)
(* there is, the silence is one of a healthy program; and a capture that    *)
(* ended without being cut has everything.                                  *)
SilenceInv ==
  phase = "reading" /\ sock = "open" /\ got = sent /\ sent < Len(program) =>
    quiet <= MaxGap /\ (Faulted(buf) => quiet = 0)

SockInv ==
  /\ sock = "error" => died
  /\ died => sock # "open"
  /\ sock = "eof" /\ ~died => sent = Len(program)

CaptureInv ==
  phase = "returned" \/ (phase = "captured" /\ ~truncated) =>
    sock # "error" /\ (~died => got = Len(program))

IInv == TypeOK /\ SilenceInv /\ SockInv /\ CaptureInv

(* Every run ends, however little the guest says.                           *)
RunEnds == <>(phase \in {"returned", "raised"})
=============================================================================
