---------------------------- MODULE FibCheckers ----------------------------
(***************************************************************************)
(* The four verifiers of fib_checkers/ and what they share in common.py:    *)
(* each takes one route to fib's answer through the files of a sandbox,     *)
(* where earlier verifications have left theirs.                            *)
(*                                                                          *)
(* What matters of a file is whether it leads to the right answer, and      *)
(* whether it is of this verification or of an earlier one.  No two routes  *)
(* write the same file, so one route at a time is looked at.                *)
(***************************************************************************)
EXTENDS Naturals, Sequences

CONSTANTS
  Routes,     \* the verifiers: of "zig", "qemu", "x86", "boot"
  Kinds,      \* what a sandbox is cut for: the sets of tools built into one
  MaxBoxes,   \* bound: sandboxes under ~/runs
  MaxEdits    \* bound: versions of f3_run.zig

ASSUME CheckerAssumption ==
  /\ Routes \subseteq {"zig", "qemu", "x86", "boot"}
  /\ Kinds # {} /\ MaxBoxes \in Nat \ {0} /\ MaxEdits \in Nat \ {0}

VARIABLES
  boxes,      \* the sandboxes, newest first: their tools and work files
  source,     \* the version of f3_run.zig
  at,         \* the step the verifier is at, "idle" between verifications
  route,      \* the route it takes: the verifier
  here,       \* the sandbox it works in
  named,      \* that sandbox was named by $SANDBOX
  broken,     \* a tool of this verification failed, or what it wrote is wrong
  verdict     \* "none", "PASS", "FAIL"

vars == <<boxes, source, at, route, here, named, broken, verdict>>
setting == <<source, route, here, named>>

(* A work file of a route: qemu-fib.ir, zig-fib.zig, dump.cdx...            *)
New(is) == [is |-> is, old |-> FALSE]
NoFiles == [f \in {"ir", "zg", "exe"} |-> New("absent")]
Box(tools) ==
  [tools |-> tools, work |-> NoFiles, runner |-> [is |-> "absent", of |-> 0]]

Init ==
  /\ \E k \in Kinds : boxes = <<Box(k)>>
  /\ source = 1
  /\ route \in Routes
  /\ at = "idle" /\ here = 1 /\ named = FALSE
  /\ broken = FALSE /\ verdict = "none"

Tools(r) == CASE r = "zig"  -> {"codexir", "zigemit"}
              [] r = "qemu" -> {"ringplug"}
              [] OTHER      -> {"x86emit"}

work == boxes[here].work

(* common.sandbox without a $SANDBOX: the newest that has a PROVENANCE.     *)
MutCountsFromZero == 0
Newest == 1

(* Between verifications a new sandbox is cut, or f3_run.zig is edited.     *)
Cut ==
  /\ at = "idle" /\ Len(boxes) < MaxBoxes
  /\ \E k \in Kinds : boxes' = <<Box(k)>> \o boxes
  /\ here' = Newest /\ verdict' = "none"
  /\ UNCHANGED <<source, route, named, at, broken>>

Edit ==
  /\ at = "idle" /\ source < MaxEdits
  /\ source' = source + 1 /\ verdict' = "none"
  /\ UNCHANGED <<boxes, route, here, named, at, broken>>
-----------------------------------------------------------------------------
(* A verifier starts, in the sandbox $SANDBOX names or the newest.          *)
Aged(files) == [f \in DOMAIN files |-> [files[f] EXCEPT !.old = TRUE]]

Start ==
  /\ at = "idle"
  /\ at' = "need"
  /\ \/ named' = TRUE /\ here' \in DOMAIN boxes
     \/ named' = FALSE /\ here' = Newest
  /\ boxes' = [boxes EXCEPT ![here'].work = Aged(@)]
  /\ broken' = FALSE /\ verdict' = "none"
  /\ UNCHANGED <<source, route>>

End(how) == at' = "idle" /\ verdict' = how
Fails    == End("FAIL") /\ UNCHANGED broken
Goes(to) == at' = to /\ UNCHANGED verdict

(* Write a work file, and note whether what is in it is wrong.              *)
Write(f, file) ==
  /\ boxes' = [boxes EXCEPT ![here].work[f] = file]
  /\ broken' = (broken \/ file.is # "right")

(* need, and need_codex_root on the routes that boot a guest: it refuses     *)
(* when no $CODEX_ROOT is given, or one of another commit than the          *)
(* sandbox's.  The checkout is no part of the state: it may refuse any time. *)
NeedsCheckout == {"qemu", "boot"}

Need ==
  /\ at = "need"
  /\ \/ /\ Tools(route) \subseteq boxes[here].tools
        /\ Goes(IF route \in {"zig", "qemu"} THEN "compile" ELSE "dump")
        /\ UNCHANGED broken
     \/ /\ route \in NeedsCheckout \/ ~(Tools(route) \subseteq boxes[here].tools)
        /\ Fails
  /\ UNCHANGED <<setting, boxes>>

(* What a tool makes of its input, when it writes anything.                 *)
Output(from) ==
  [is : IF from.is = "right" THEN {"right", "wrong", "partial"} ELSE {"wrong"},
   old : {from.old}]
Given == New("right")

(* One tool of a route, whose exit status no route looks at: the verifier    *)
(* goes on when there is anything in the file.  The native tools' outputs   *)
(* are opened for writing first, so nothing earlier is left when they fail; *)
(* the guests' drivers write theirs in the end, if at all, and whatever is  *)
(* there then is used.                                                      *)
Truncates == route = "zig"

Tool(step, f, from, to) ==
  /\ at = step
  /\ \/ \E file \in Output(from) : Write(f, file) /\ Goes(to)
     \/ /\ Truncates
        /\ boxes' = [boxes EXCEPT ![here].work[f] = New("absent")] /\ Fails
     \/ /\ ~Truncates /\ UNCHANGED boxes
        /\ IF work[f].is = "absent" THEN Fails ELSE Goes(to) /\ broken' = TRUE
  /\ UNCHANGED setting

(* The bare-metal route has its unit assembled first, by a command whose    *)
(* exit status it does look at.                                             *)
AssemblyFails ==
  /\ at = "compile" /\ route = "qemu"
  /\ Fails
  /\ UNCHANGED <<setting, boxes>>

Compile   == AssemblyFails \/ Tool("compile", "ir", Given, "transpile")
Transpile == Tool("transpile", "zg", work.ir, "link")

(* zig build-exe, whose exit status is looked at.                           *)
Link ==
  /\ at = "link"
  /\ \/ Write("exe", work.zg) /\ Goes("run")
     \/ UNCHANGED boxes /\ Fails
  /\ UNCHANGED setting

(* x86emit's dump, or nothing that is one; boot_emitted reassembles it.     *)
Dump ==
  /\ at = "dump"
  /\ \/ \E file \in Output(Given) :
          Write("exe", file) /\ Goes(IF route = "x86" THEN "runner" ELSE "run")
     \/ UNCHANGED boxes /\ Fails
  /\ UNCHANGED setting

(* f3_run is built when it is missing or older than its source; a build     *)
(* that fails may leave part of a binary.                                   *)
MutOnlyIfMissing == boxes[here].runner.is = "absent"
RunnerOutdated == boxes[here].runner.is = "absent" \/ boxes[here].runner.of < source

Runner ==
  /\ at = "runner"
  /\ \/ ~RunnerOutdated /\ Goes("run") /\ UNCHANGED <<boxes, broken>>
     \/ /\ RunnerOutdated
        /\ \E is \in {"whole", "partial", "absent"} :
              /\ boxes' = [boxes EXCEPT ![here].runner = [is |-> is, of |-> source]]
              /\ IF is = "whole" THEN Goes("run") /\ UNCHANGED broken ELSE Fails
  /\ UNCHANGED setting

(* The answer: what the linked program, the runner or the guest printed.    *)
Answered ==
  work.exe.is = "right" /\ (route = "x86" => boxes[here].runner.is = "whole")

Run ==
  /\ at = "run"
  /\ End(IF Answered THEN "PASS" ELSE "FAIL")
  /\ UNCHANGED <<setting, boxes, broken>>

(* A guest that will not boot, or output that was cut short, is a failure.  *)
RunBreaks ==
  /\ at = "run" /\ route = "boot"
  /\ Fails
  /\ UNCHANGED <<setting, boxes>>

(* The verifier is stopped; what it wrote so far stays.                     *)
Stop ==
  /\ at # "idle" /\ at' = "idle"
  /\ UNCHANGED <<setting, boxes, broken, verdict>>

Next ==
  \/ Start \/ Need \/ Compile \/ Transpile \/ Link \/ Dump \/ Runner \/ Run \/ RunBreaks
  \/ Stop \/ Cut \/ Edit

Spec == Init /\ [][Next]_vars
-----------------------------------------------------------------------------
Contents == {"absent", "partial", "right", "wrong"}

(* Every variable keeps to its range.                                       *)
TypeOK ==
  /\ source \in 1 .. MaxEdits /\ route \in Routes
  /\ Len(boxes) \in 1 .. MaxBoxes /\ here \in DOMAIN boxes
  /\ named \in BOOLEAN /\ broken \in BOOLEAN
  /\ at \in {"idle", "need", "compile", "transpile", "link", "dump", "runner", "run"}
  /\ verdict \in {"none", "PASS", "FAIL"}
  /\ \A b \in DOMAIN boxes :
        /\ boxes[b].tools \in Kinds
        /\ boxes[b].runner \in [is : {"absent", "whole", "partial"}, of : 0 .. MaxEdits]
        /\ boxes[b].work \in
             [{"ir", "zg", "exe"} -> [is : Contents, old : BOOLEAN]]

(* A PASS is this verification's own: every step of it worked, nothing an   *)
(* earlier one left behind stood in for its work, and the runner is that of *)
(* the source beside it.  (The bare-metal route is BareMetalPassIsEarned.)  *)
Earned ==
  /\ ~broken /\ ~work.exe.old
  /\ route = "x86" => boxes[here].runner.of = source

PassIsEarned == verdict = "PASS" /\ route # "qemu" => Earned

(* The same of the route that is called authoritative.                      *)
BareMetalPassIsEarned == verdict = "PASS" /\ route = "qemu" => Earned
=============================================================================
