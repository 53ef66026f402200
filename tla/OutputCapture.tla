--------------------------- MODULE OutputCapture ---------------------------
(***************************************************************************)
(* The capture half of compile_ring (ring_compile.py), which compile_blob   *)
(* (codex_vm.py) repeats for a streamed compile: read the guest's serial    *)
(* output until it is known to be all there, then parse it into files.      *)
(*                                                                          *)
(* What the guest will print is a sequence of tokens, its script:           *)
(*   diag      a diagnostic line          wd        a WD: watchdog line     *)
(*   size      SIZE:<n>, without newline  nl        a newline               *)
(*   byte      a byte of payload          trail     a byte of the trailer   *)
(*   halted    a CODEGEN-HALTED line      sentinel  the end-of-stream mark  *)
(* A length counts tokens.  What is received is always a prefix, cut        *)
(* anywhere.  Time passes in gaps: a gap longer than the socket's timeout   *)
(* is a Quiet step, and the deadline may pass at any turn of the loop.      *)
(***************************************************************************)
EXTENDS Integers, Sequences, SequencesExt, FiniteSets

CONSTANTS
  Framed,     \* what guests may print that announce their SIZE
  Streamed    \* what guests may print that end with a sentinel

Unparsable == -1      \* a SIZE: that int() cannot read
None == -1            \* needed is None

Token(k) == [kind |-> k, n |-> 0]
Size(n)  == [kind |-> "size", n |-> n]

Tokens == [kind : {"diag", "wd", "size", "nl", "byte", "trail", "halted", "sentinel"},
           n : Nat \cup {Unparsable}]

ASSUME ScriptAssumption == Framed \cup Streamed \subseteq Seq(Tokens)

(* Position of the first token of a kind, 0 if there is none.               *)
First(s, k) == SelectInSeq(s, LAMBDA t : t.kind = k)

(* Position of the newline ending the SIZE header, 0 before it is there.    *)
HeaderEnd(s) ==
  LET i == First(s, "size")
  IN IF i = 0 THEN 0
     ELSE LET j == First(SubSeq(s, i, Len(s)), "nl") IN IF j = 0 THEN 0 ELSE i + j - 1

Announced(s) == s[First(s, "size")].n

(* A guest that announces a SIZE has not given up, and has said its         *)
(* diagnostics: what follows the header is as many bytes as it announced,   *)
(* or as many of them as it got to, and then the trailer.                   *)
ASSUME FramedAssumption ==
  \A s \in Framed : First(s, "size") # 0 =>
    /\ First(s, "halted") = 0
    /\ \A p \in First(s, "size") + 1 .. Len(s) : s[p].kind \in {"nl", "byte", "trail"}
    /\ Announced(s) \in Nat => \A p \in DOMAIN s :
         s[p].kind = "byte" <=>
           HeaderEnd(s) # 0 /\ p \in HeaderEnd(s) + 1 .. HeaderEnd(s) + Announced(s)

VARIABLES
  sentinel,   \* compile_ring was given a sentinel
  script,     \* what this guest prints
  sent,       \* how many tokens it has printed
  alive,      \* QEMU is running, so the socket is open
  got,        \* how many tokens the host has received: out
  needed,     \* where the capture may stop, or None
  late,       \* the deadline passed
  phase,      \* "reading", "diags", "body", "map", "done"
  result,     \* what compile_ring returned
  artifact,   \* out_path, sidecar: out_path.diags, map: out_path.map
  sidecar,
  map

vars == <<sentinel, script, sent, alive, got, needed, late, phase, result,
          artifact, sidecar, map>>
guestVars == <<sentinel, script, sent, alive>>
fileVars  == <<artifact, sidecar, map>>

(* A file: left by an earlier run, removed, or written by this one.         *)
Stale(d)   == [age |-> "stale", data |-> d]
Absent(d)  == [age |-> "absent", data |-> d]
Written(d) == [age |-> "fresh", data |-> d]

out == SubSeq(script, 1, got)

Init ==
  /\ sentinel \in BOOLEAN /\ script \in IF sentinel THEN Streamed ELSE Framed
  /\ sent = 0 /\ alive = TRUE /\ got = 0
  /\ needed = None /\ late = FALSE
  /\ phase = "reading" /\ result = "none"
  /\ artifact = Stale(<<>>) /\ sidecar = Stale({}) /\ map = Stale(<<>>)
-----------------------------------------------------------------------------
(* The guest prints its script and stays up; QEMU may die at any moment.    *)
Emit ==
  /\ alive /\ sent < Len(script)
  /\ sent' = sent + 1
  /\ UNCHANGED <<sentinel, script, alive, got, needed, late, phase, result, fileVars>>

QemuDies ==
  /\ alive /\ phase = "reading"
  /\ alive' = FALSE
  /\ UNCHANGED <<sentinel, script, sent, got, needed, late, phase, result, fileVars>>
-----------------------------------------------------------------------------
(* compile_ring returns, or is left by an exception.                        *)
Return(r) == phase' = "done" /\ result' = r

(* Where the loop may stop, from all that has been received so far: past    *)
(* the sentinel; else past the payload a complete SIZE header announces;    *)
(* else here, when the compiler says it gave up.                            *)
MutHeaderUnterminated(s) ==
  IF sentinel /\ First(s, "sentinel") # 0 THEN First(s, "sentinel")
  ELSE IF First(s, "size") # 0 THEN First(s, "size") + Announced(s)
  ELSE IF First(s, "halted") # 0 THEN Len(s)
  ELSE None
Needed(s) ==
  IF sentinel /\ First(s, "sentinel") # 0 THEN First(s, "sentinel")
  ELSE IF HeaderEnd(s) # 0 THEN HeaderEnd(s) + Announced(s)
  ELSE IF First(s, "halted") # 0 THEN Len(s)
  ELSE None

(* The header's number is read as soon as the header is complete.           *)
BadHeader(s) ==
  /\ ~(sentinel /\ First(s, "sentinel") # 0)
  /\ HeaderEnd(s) # 0 /\ Announced(s) = Unparsable

Recv ==
  /\ phase = "reading"
  /\ \E n \in got + 1 .. sent :
        LET s == SubSeq(script, 1, n)
        IN /\ got' = n
           /\ IF needed = None /\ BadHeader(s)
                THEN Return("raised") /\ UNCHANGED needed
                ELSE /\ needed' = IF needed = None THEN Needed(s) ELSE needed
                     /\ UNCHANGED <<phase, result>>
  /\ UNCHANGED <<guestVars, late, fileVars>>

(* recv timed out: two seconds once everything needed is here, else five.   *)
MutAnyQuietEnds == TRUE
QuietEnds == needed # None /\ got >= needed

Parse == phase' = IF sentinel THEN "body" ELSE "diags"

Quiet ==
  /\ phase = "reading" /\ got = sent
  /\ QuietEnds
  /\ Parse
  /\ UNCHANGED <<guestVars, got, needed, late, result, fileVars>>

(* The socket is at its end, or broke with bytes still unread.              *)
Eof ==
  /\ phase = "reading" /\ ~alive
  /\ Parse
  /\ UNCHANGED <<guestVars, got, needed, late, result, fileVars>>

MutDeadlineUnchecked == FALSE
DeadlineChecked == phase = "reading"

Deadline ==
  /\ DeadlineChecked
  /\ late' = TRUE
  /\ Parse
  /\ UNCHANGED <<guestVars, got, needed, result, fileVars>>
-----------------------------------------------------------------------------
(* The diagnostics of the header: all lines before SIZE that are not WD:.   *)
MutOneDiagnostic(s) ==
  LET p == First(s, "diag") IN IF p = 0 THEN {} ELSE {p}
Diagnostics(s) ==
  LET i == First(s, "size")
      header == IF i = 0 THEN s ELSE SubSeq(s, 1, i - 1)
  IN {p \in 1 .. Len(header) : header[p].kind \in {"diag", "halted"}}

(* The sidecar is removed, and written anew when there is anything to say.  *)
MutSidecarKept(diags) == IF diags = {} THEN sidecar ELSE Written(diags)
FreshSidecar(diags) == IF diags = {} THEN Absent({}) ELSE Written(diags)

WriteDiags ==
  /\ phase = "diags"
  /\ sidecar' = FreshSidecar(Diagnostics(out))
  /\ IF First(out, "size") = 0 THEN Return("false")
     ELSE IF HeaderEnd(out) = 0 \/ Announced(out) = Unparsable THEN Return("raised")
     ELSE phase' = "body" /\ UNCHANGED result
  /\ UNCHANGED <<guestVars, got, needed, late, artifact, map>>

(* What a header announces, as much of it as came, and what follows it.     *)
PayloadEnd == HeaderEnd(out) + Announced(out)
Binary  == SubSeq(out, HeaderEnd(out) + 1, Min({PayloadEnd, got}))
Trailer == SubSeq(out, PayloadEnd + 1, got)

MutShortAccepted == TRUE
NothingMissing == got >= PayloadEnd

WriteBinary ==
  /\ phase = "body" /\ ~sentinel
  /\ IF NothingMissing
       THEN artifact' = Written(Binary) /\ phase' = "map" /\ UNCHANGED result
       ELSE Return("false") /\ UNCHANGED artifact
  /\ UNCHANGED <<guestVars, got, needed, late, sidecar, map>>

(* trailer.strip(): blank lines behind the payload are no map.              *)
Blank(s) == \A p \in DOMAIN s : s[p].kind = "nl"

WriteMap ==
  /\ phase = "map"
  /\ map' = IF Blank(Trailer) THEN map ELSE Written(Trailer)
  /\ Return("true")
  /\ UNCHANGED <<guestVars, got, needed, late, artifact, sidecar>>

(* Given a sentinel: all that came before it, or nothing at all.            *)
SentinelSeen(s) == First(s, "sentinel") # 0

WriteStream ==
  /\ phase = "body" /\ sentinel
  /\ IF SentinelSeen(out)
       THEN /\ artifact' = Written(SubSeq(out, 1, First(out, "sentinel") - 1))
            /\ Return("true")
       ELSE Return("false") /\ UNCHANGED artifact
  /\ UNCHANGED <<guestVars, got, needed, late, sidecar, map>>

(* The driver may be killed between any two of its writes.                  *)
HostKilled ==
  /\ phase \notin {"done", "killed"}
  /\ phase' = "killed"
  /\ UNCHANGED <<guestVars, got, needed, late, result, fileVars>>

HostStep ==
  \/ Recv \/ Quiet \/ Eof \/ Deadline
  \/ WriteDiags \/ WriteBinary \/ WriteMap \/ WriteStream

Ended == phase \in {"done", "killed"} /\ UNCHANGED vars

Next == HostStep \/ HostKilled \/ Emit \/ QemuDies \/ Ended

Spec == Init /\ [][Next]_vars

(* The loop tests its deadline every turn, and a turn lasts five seconds at *)
(* most, so the driver always goes on.                                      *)
FairSpec == Spec /\ WF_vars(Deadline) /\ WF_vars(HostStep)
-----------------------------------------------------------------------------
(* Every variable keeps to its range.                                       *)
TypeOK ==
  /\ sentinel \in BOOLEAN /\ script \in Framed \cup Streamed
  /\ sent \in 0 .. Len(script) /\ got \in 0 .. sent
  /\ alive \in BOOLEAN /\ late \in BOOLEAN
  /\ needed = None \/ needed \in Nat \ {0}
  /\ phase \in {"reading", "diags", "body", "map", "done", "killed"}
  /\ result \in {"none", "true", "false", "raised"}
  /\ artifact.age \in {"stale", "fresh"}
  /\ sidecar.age \in {"stale", "absent", "fresh"}
  /\ map.age \in {"stale", "fresh"}

(* The guest printed an output that a driver with patience would accept.    *)
Payload ==
  LET bytes == {p \in DOMAIN script : script[p].kind = "byte"}
  IN IF sentinel THEN SubSeq(script, 1, First(script, "sentinel") - 1)
     ELSE IF bytes = {} THEN <<>> ELSE SubSeq(script, Min(bytes), Max(bytes))
Finishes ==
  IF sentinel THEN First(script, "sentinel") # 0
  ELSE First(script, "size") # 0 /\ Announced(script) = Len(Payload)

(* TRUE is returned only with the whole payload in the file: no prefix of   *)
(* it, however the stream was cut, passes for the artifact.                 *)
TrueMeansWhole == result = "true" => artifact = Written(Payload)

(* The driver never gives up on a guest that would have finished: a failure *)
(* means QEMU died, time ran out, or the guest itself printed no artifact.  *)
(* But the loop looks for the other mode's marks in a streamed text too: if *)
(* that quotes SIZE: or CODEGEN-HALTED before its sentinel, two seconds of  *)
(* silence, or a number that is none, end the capture of a good run.        *)
ReadsAsFramed ==
  sentinel /\ \E k \in {"size", "halted"} :
                 First(script, k) \in 1 .. First(script, "sentinel") - 1

FailureIsTheGuests ==
  result \in {"false", "raised"} => ~alive \/ late \/ ~Finishes \/ ReadsAsFramed

(* A good compile leaves every one of its diagnostics in the sidecar, and   *)
(* none of an earlier run's.                                                *)
NoDiagnosticLost ==
  result = "true" /\ ~sentinel =>
    LET said == {p \in DOMAIN script : script[p].kind \in {"diag", "halted"}}
    IN sidecar = IF said = {} THEN Absent({}) ELSE Written(said)

(* An artifact of this run never stands beside an earlier run's             *)
(* diagnostics, not even when the driver is killed between its writes.      *)
(* (A streamed run writes no sidecar and leaves an earlier one: the         *)
(* diagnostics are in its payload.)                                         *)
EvidenceFresh ==
  ~sentinel /\ artifact.age = "fresh" => sidecar.age # "stale"

(* The capture ends whatever the guest does.                                *)
CaptureEnds == <>(phase \in {"done", "killed"})
=============================================================================
