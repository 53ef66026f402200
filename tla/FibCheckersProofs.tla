------------------------- MODULE FibCheckersProofs -------------------------
(* Proofs about the verifiers, for any number of sandboxes, any sets of      *)
(* tools in them, and any number of edits of the runner's source.            *)
EXTENDS FibCheckers, TLAPS

File == [is : Contents, old : BOOLEAN]
Work == [{"ir", "zg", "exe"} -> File]
Sandboxes ==
  [tools : Kinds, work : Work,
   runner : [is : {"absent", "whole", "partial"}, of : 0 .. MaxEdits]]

Typed ==
  /\ source \in 1 .. MaxEdits /\ route \in Routes
  /\ boxes \in Seq(Sandboxes) /\ Len(boxes) \in 1 .. MaxBoxes /\ here \in 1 .. Len(boxes)
  /\ named \in BOOLEAN /\ broken \in BOOLEAN
  /\ at \in {"idle", "need", "compile", "transpile", "link", "dump", "runner", "run"}
  /\ verdict \in {"none", "PASS", "FAIL"}

(* Which steps a route takes, that none of them has a verdict yet, and that  *)
(* nothing has failed before the first of them.                              *)
StepInv ==
  /\ at # "idle" => verdict = "none"
  /\ at \in {"need", "compile", "dump"} => ~broken
  /\ at \in {"compile", "transpile", "link"} => route \in {"zig", "qemu"}
  /\ at = "dump" => route \in {"x86", "boot"}
  /\ at = "runner" => route = "x86"

(* No runner is of a version of the source still to come, and the one that   *)
(* is used is of the present one.                                            *)
RunnerInv ==
  /\ \A b \in 1 .. Len(boxes) : boxes[b].runner.of <= source
  /\ at = "run" /\ route = "x86" => boxes[here].runner.of = source

(* The file the verification goes on from, by the step it is at.             *)
Input == IF at = "transpile" THEN "ir" ELSE IF at = "link" THEN "zg" ELSE "exe"

(* On a route whose tools leave nothing of an earlier verification, the file *)
(* gone on from is new, and it is right only if all went well.               *)
FileInv ==
  at \in {"transpile", "link", "runner", "run"} /\ route # "qemu" =>
    /\ work[Input].is = "right" => ~broken
    /\ ~work[Input].old

Inv == /\ Typed /\ StepInv /\ RunnerInv /\ FileInv
       /\ PassIsEarned
-----------------------------------------------------------------------------
(* A fresh sandbox.                                                          *)
LEMMA BoxType == \A k \in Kinds : Box(k) \in Sandboxes /\ Box(k).runner.of = 0
  <1>1. NoFiles \in Work
    BY DEF NoFiles, New, Work, File, Contents
  <1> QED BY <1>1, CheckerAssumption DEF Box, Sandboxes

(* One sandbox among the others is changed, the one at hand.                 *)
LEMMA BoxChange ==
  ASSUME Typed, NEW b \in Sandboxes, NEW h \in 1 .. Len(boxes),
         boxes' = [boxes EXCEPT ![h] = b]
  PROVE  /\ boxes' \in Seq(Sandboxes) /\ Len(boxes') = Len(boxes)
         /\ boxes'[h] = b
         /\ \A i \in 1 .. Len(boxes) : i # h => boxes'[i] = boxes[i]
  BY DEF Typed

(* A work file is written, which leaves the rest of the sandbox alone.       *)
LEMMA FileChange ==
  ASSUME Typed, NEW f \in {"ir", "zg", "exe"}, NEW file \in File,
         boxes' = [boxes EXCEPT ![here].work[f] = file]
  PROVE  /\ boxes' \in Seq(Sandboxes) /\ Len(boxes') = Len(boxes)
         /\ boxes'[here].work[f] = file
         /\ \A i \in 1 .. Len(boxes) : boxes'[i].runner = boxes[i].runner
  <1> DEFINE b == [boxes[here] EXCEPT !.work[f] = file]
  <1>1. boxes[here] \in Sandboxes
    BY DEF Typed
  <1>2. b \in Sandboxes /\ b.work[f] = file /\ b.runner = boxes[here].runner
    BY <1>1 DEF Sandboxes, Work
  <1>3. boxes' = [boxes EXCEPT ![here] = b]
    OBVIOUS
  <1>4. here \in 1 .. Len(boxes)
    BY DEF Typed
  <1> HIDE DEF b
  <1>5. /\ boxes' \in Seq(Sandboxes) /\ Len(boxes') = Len(boxes)
        /\ boxes'[here] = b
        /\ \A i \in 1 .. Len(boxes) : i # here => boxes'[i] = boxes[i]
    BY <1>2, <1>3, <1>4, BoxChange
  <1> QED BY <1>2, <1>5

(* What a tool writes is new, and right only if its input was.               *)
LEMMA OutputType ==
  ASSUME NEW from \in File, NEW file \in Output(from)
  PROVE  /\ file \in File /\ file.old = from.old
         /\ file.is = "right" => from.is = "right"
  BY DEF Output, File, Contents

(* The file a step is given, and the one it goes on from.                    *)
LEMMA WorkType ==
  ASSUME Typed PROVE \A f \in {"ir", "zg", "exe"} : work[f] \in File
  <1>1. boxes[here] \in Sandboxes
    BY DEF Typed
  <1> QED BY <1>1 DEF work, Sandboxes, Work
-----------------------------------------------------------------------------
(* The first sandbox, before any verification.                               *)
LEMMA InitInv == Init => Inv
  <1> SUFFICES ASSUME Init PROVE Inv
    OBVIOUS
  <1>1. PICK k \in Kinds : boxes = <<Box(k)>>
    BY DEF Init
  <1>2. Box(k) \in Sandboxes /\ Len(boxes) = 1 /\ boxes \in Seq(Sandboxes) /\ boxes[1] = Box(k)
    BY <1>1, BoxType
  <1>3. Typed
    <2>1. 1 \in 1 .. MaxEdits /\ Len(boxes) \in 1 .. MaxBoxes /\ 1 \in 1 .. Len(boxes)
      BY <1>2, CheckerAssumption
    <2>2. named \in BOOLEAN /\ broken \in BOOLEAN
      BY DEF Init
    <2> QED BY <1>2, <2>1, <2>2 DEF Init, Typed
  <1>4. RunnerInv
    BY <1>2, BoxType DEF Init, RunnerInv
  <1> QED BY <1>3, <1>4 DEF Init, Inv, StepInv, FileInv, PassIsEarned

(* A verification ends without a PASS it has not earned.                     *)
LEMMA FailsInv ==
  ASSUME Inv, Fails, UNCHANGED setting,
         boxes' \in Seq(Sandboxes), Len(boxes') = Len(boxes),
         \A i \in 1 .. Len(boxes) : boxes'[i].runner.of <= source
  PROVE  Inv'
  <1> USE DEF Inv, Fails, End, setting
  <1>1. Typed'
    BY DEF Typed
  <1>2. RunnerInv'
    BY DEF RunnerInv
  <1> QED BY <1>1, <1>2 DEF StepInv, FileInv, PassIsEarned

(* A new sandbox.                                                            *)
LEMMA CutInv == Inv /\ Cut => Inv'
  <1> SUFFICES ASSUME Inv, Cut PROVE Inv'
    OBVIOUS
  <1>1. PICK k \in Kinds : boxes' = <<Box(k)>> \o boxes
    BY DEF Cut
  <1>2. PICK n \in Nat : n = Len(boxes) /\ n \in 1 .. MaxBoxes
    BY CheckerAssumption DEF Inv, Typed
  <1>3. Box(k) \in Sandboxes /\ boxes \in Seq(Sandboxes)
    BY BoxType DEF Inv, Typed
  <1>4. /\ boxes' \in Seq(Sandboxes) /\ Len(boxes') = n + 1 /\ boxes'[1] = Box(k)
        /\ \A i \in 1 .. n : boxes'[i + 1] = boxes[i]
    BY <1>1, <1>2, <1>3
  <1>5. Typed'
    BY <1>2, <1>4, CheckerAssumption DEF Cut, Inv, Typed, Newest
  <1>6. ASSUME NEW i \in 1 .. n + 1 PROVE boxes'[i].runner.of <= source
    <2>1. CASE i = 1
      BY <1>4, <2>1, BoxType DEF Inv, Typed
    <2>2. CASE i # 1
      <3>1. i - 1 \in 1 .. n /\ boxes'[i] = boxes[i - 1]
        BY <1>2, <1>4, <2>2
      <3> QED BY <1>2, <3>1 DEF Inv, RunnerInv
    <2> QED BY <2>1, <2>2
  <1>7. RunnerInv'
    BY <1>4, <1>6 DEF Cut, RunnerInv
  <1> QED BY <1>5, <1>7 DEF Cut, Inv, StepInv, FileInv, PassIsEarned

(* An edit: a runner that was of the present source is outdated.             *)
LEMMA EditInv == Inv /\ Edit => Inv'
  <1> SUFFICES ASSUME Inv, Edit PROVE Inv'
    OBVIOUS
  <1> USE DEF Edit, Inv
  <1>1. Typed'
    BY CheckerAssumption DEF Typed
  <1>2. ASSUME NEW i \in 1 .. Len(boxes) PROVE boxes[i].runner.of \in Nat
    <2>1. boxes[i] \in Sandboxes
      BY DEF Typed
    <2> QED BY <2>1, CheckerAssumption DEF Sandboxes
  <1>3. RunnerInv'
    BY <1>2, CheckerAssumption DEF Typed, RunnerInv
  <1> QED BY <1>1, <1>3 DEF StepInv, FileInv, PassIsEarned

(* A verification begins: the work files there are an earlier one's.         *)
LEMMA StartInv == Inv /\ Start => Inv'
  <1> SUFFICES ASSUME Inv, Start PROVE Inv'
    OBVIOUS
  <1>1. here' \in 1 .. Len(boxes) /\ named' \in BOOLEAN
    <2>1. DOMAIN boxes = 1 .. Len(boxes) /\ 1 \in 1 .. Len(boxes)
      BY CheckerAssumption DEF Inv, Typed
    <2>2. CASE named' = TRUE /\ here' \in DOMAIN boxes
      BY <2>1, <2>2
    <2>3. CASE named' = FALSE /\ here' = Newest
      BY <2>1, <2>3, Zenon DEF Newest
    <2> QED BY <2>2, <2>3 DEF Start
  <1>2. boxes[here'] \in Sandboxes
    BY <1>1 DEF Inv, Typed
  <1> DEFINE b == [boxes[here'] EXCEPT !.work = Aged(@)]
  <1>3. Aged(boxes[here'].work) \in Work
    BY <1>2 DEF Aged, Sandboxes, Work, File
  <1>4. b \in Sandboxes /\ b.runner = boxes[here'].runner
    BY <1>2, <1>3 DEF Sandboxes
  <1>5. boxes' = [boxes EXCEPT ![here'] = b]
    BY DEF Start
  <1> HIDE DEF b
  <1>6. /\ boxes' \in Seq(Sandboxes) /\ Len(boxes') = Len(boxes)
        /\ \A i \in 1 .. Len(boxes) : boxes'[i].runner = boxes[i].runner
    BY <1>1, <1>4, <1>5, BoxChange DEF Inv
  <1>7. Typed'
    BY <1>1, <1>6 DEF Start, Inv, Typed
  <1>8. RunnerInv'
    BY <1>6 DEF Start, Inv, RunnerInv
  <1> QED BY <1>7, <1>8 DEF Start, Inv, StepInv, FileInv, PassIsEarned

(* need and need_codex_root.                                                 *)
LEMMA NeedInv == Inv /\ Need => Inv'
  <1> SUFFICES ASSUME Inv, Need PROVE Inv'
    OBVIOUS
  <1>1. CASE Fails
    BY <1>1, FailsInv DEF Need, Inv, Typed, RunnerInv
  <1>2. CASE Goes(IF route \in {"zig", "qemu"} THEN "compile" ELSE "dump") /\ UNCHANGED broken
    <2>1. route \in {"zig", "qemu", "x86", "boot"} /\ at = "need"
      BY CheckerAssumption DEF Need, Inv, Typed
    <2> USE <1>2, <2>1 DEF Need, Goes, Inv, setting
    <2>2. Typed'
      BY DEF Typed
    <2>3. RunnerInv'
      BY DEF RunnerInv
    <2> QED BY <2>2, <2>3 DEF StepInv, FileInv, PassIsEarned
  <1> QED BY <1>1, <1>2 DEF Need

(* A step writes the file the next one is given.                             *)
LEMMA WriteInv ==
  ASSUME Inv, NEW f \in {"ir", "zg", "exe"}, NEW file \in File, NEW to,
         Write(f, file), Goes(to), at # "idle", UNCHANGED setting,
         \/ to = "transpile" /\ f = "ir"  /\ route \in {"zig", "qemu"}
         \/ to = "link"      /\ f = "zg"  /\ route \in {"zig", "qemu"}
         \/ to = "runner"    /\ f = "exe" /\ route = "x86"
         \/ to = "run"       /\ f = "exe" /\ route # "x86",
         route # "qemu" => ~file.old /\ (file.is = "right" => ~broken)
  PROVE  Inv'
  <1>1. /\ boxes' \in Seq(Sandboxes) /\ Len(boxes') = Len(boxes)
        /\ boxes'[here].work[f] = file
        /\ \A i \in 1 .. Len(boxes) : boxes'[i].runner = boxes[i].runner
    BY FileChange DEF Inv, Write
  <1>2. Typed'
    BY <1>1 DEF Inv, Typed, Write, Goes, setting
  <1>3. StepInv' /\ verdict' = "none"
    BY DEF Inv, StepInv, Goes, setting
  <1>4. RunnerInv'
    BY <1>1 DEF Inv, RunnerInv, Goes, setting
  <1>5. FileInv'
    <2>1. Input' = f /\ work'[f] = file
      BY <1>1 DEF Input, Goes, work, setting
    <2> QED BY <2>1 DEF Inv, Typed, FileInv, Write, Goes, setting
  <1> QED BY <1>2, <1>3, <1>4, <1>5 DEF Inv, PassIsEarned


(* One tool of the zig or the bare-metal route.                              *)
LEMMA ToolInv ==
  ASSUME Inv, NEW step, NEW f, NEW from \in File, NEW to, Tool(step, f, from, to),
         \/ step = "compile" /\ f = "ir" /\ to = "transpile" /\ from = Given
         \/ step = "transpile" /\ f = "zg" /\ to = "link" /\ from = work.ir
  PROVE  Inv'
  <1>1. at = step /\ step \in {"compile", "transpile"} /\ route \in {"zig", "qemu"}
        /\ UNCHANGED setting /\ f \in {"ir", "zg", "exe"} /\ at # "idle"
    BY DEF Tool, Inv, StepInv
  <1>2. ASSUME NEW file \in Output(from), Write(f, file), Goes(to) PROVE Inv'
    <2>1. /\ file \in File /\ file.old = from.old
          /\ file.is = "right" => from.is = "right"
      BY OutputType
    <2>2. route # "qemu" => ~from.old /\ (from.is = "right" => ~broken)
      <3>1. CASE step = "compile"
        BY <1>1, <3>1 DEF Inv, StepInv, Given, New
      <3>2. CASE step = "transpile"
        BY <1>1, <3>2 DEF Inv, FileInv, Input
      <3> QED BY <1>1, <3>1, <3>2
    <2> QED BY <1>1, <1>2, <2>1, <2>2, WriteInv
  <1>3. ASSUME Truncates, boxes' = [boxes EXCEPT ![here].work[f] = New("absent")], Fails
        PROVE  Inv'
    <2>1. New("absent") \in File
      BY DEF New, File, Contents
    <2>2. /\ boxes' \in Seq(Sandboxes) /\ Len(boxes') = Len(boxes)
          /\ \A i \in 1 .. Len(boxes) : boxes'[i].runner = boxes[i].runner
      BY <1>1, <1>3, <2>1, FileChange DEF Inv
    <2> QED BY <1>1, <1>3, <2>2, FailsInv DEF Inv, RunnerInv
  <1>4. ASSUME UNCHANGED boxes, Fails PROVE Inv'
    BY <1>1, <1>4, FailsInv DEF Inv, Typed, RunnerInv
  <1>5. ASSUME ~Truncates, UNCHANGED boxes, Goes(to), broken' = TRUE PROVE Inv'
    <2> USE <1>1, <1>5 DEF Inv, Goes, setting
    <2>1. route = "qemu" /\ to \in {"transpile", "link"}
      BY DEF Truncates
    <2>2. Typed'
      BY <2>1 DEF Typed
    <2>3. RunnerInv'
      BY <2>1 DEF RunnerInv
    <2> QED BY <2>1, <2>2, <2>3 DEF StepInv, FileInv, PassIsEarned
  <1> QED BY <1>2, <1>3, <1>4, <1>5 DEF Tool

(* zig build-exe.                                                            *)
LEMMA LinkInv == Inv /\ Link => Inv'
  <1> SUFFICES ASSUME Inv, Link PROVE Inv'
    OBVIOUS
  <1>1. at = "link" /\ route \in {"zig", "qemu"} /\ work.zg \in File /\ UNCHANGED setting
    BY WorkType DEF Link, Inv, StepInv
  <1>2. CASE Write("exe", work.zg) /\ Goes("run")
    <2>1. route # "qemu" => ~work.zg.old /\ (work.zg.is = "right" => ~broken)
      BY <1>1 DEF Inv, FileInv, Input
    <2> QED BY <1>1, <1>2, <2>1, WriteInv
  <1>3. CASE UNCHANGED boxes /\ Fails
    BY <1>1, <1>3, FailsInv DEF Inv, Typed, RunnerInv
  <1> QED BY <1>2, <1>3 DEF Link

(* x86emit's dump.                                                           *)
LEMMA DumpInv == Inv /\ Dump => Inv'
  <1> SUFFICES ASSUME Inv, Dump PROVE Inv'
    OBVIOUS
  <1>1. at = "dump" /\ route \in {"x86", "boot"} /\ ~broken /\ UNCHANGED setting
    BY DEF Dump, Inv, StepInv
  <1>2. ASSUME NEW file \in Output(Given), Write("exe", file),
               Goes(IF route = "x86" THEN "runner" ELSE "run")
        PROVE  Inv'
    <2>1. Given \in File /\ ~Given.old
      BY DEF Given, New, File, Contents
    <2>2. file \in File /\ file.old = Given.old
      BY <2>1, OutputType
    <2>3. CASE route = "x86"
      BY <1>1, <1>2, <2>1, <2>2, <2>3, WriteInv
    <2>4. CASE route # "x86"
      BY <1>1, <1>2, <2>1, <2>2, <2>4, WriteInv
    <2> QED BY <2>3, <2>4
  <1>3. CASE UNCHANGED boxes /\ Fails
    BY <1>1, <1>3, FailsInv DEF Inv, Typed, RunnerInv
  <1> QED BY <1>2, <1>3 DEF Dump

(* The runner is kept, or built from the present source, if only in part.    *)
LEMMA RunnerStepInv == Inv /\ Runner => Inv'
  <1> SUFFICES ASSUME Inv, Runner PROVE Inv'
    OBVIOUS
  <1>1. at = "runner" /\ route = "x86" /\ UNCHANGED setting /\ here \in 1 .. Len(boxes)
        /\ boxes[here] \in Sandboxes /\ source \in 1 .. MaxEdits
        /\ boxes[here].runner.of <= source
    BY DEF Runner, Inv, StepInv, Typed, RunnerInv
  <1>2. CASE ~RunnerOutdated /\ Goes("run") /\ UNCHANGED <<boxes, broken>>
    <2> USE <1>1, <1>2 DEF Inv, Goes, setting
    <2>1. boxes[here].runner.of = source
      BY CheckerAssumption DEF RunnerOutdated, Sandboxes
    <2>2. Typed'
      BY DEF Typed
    <2>3. RunnerInv'
      BY <2>1 DEF RunnerInv
    <2>4. FileInv'
      BY DEF FileInv, Input, work
    <2> QED BY <2>2, <2>3, <2>4 DEF StepInv, PassIsEarned
  <1>3. ASSUME NEW is \in {"whole", "partial", "absent"},
               boxes' = [boxes EXCEPT ![here].runner = [is |-> is, of |-> source]],
               IF is = "whole" THEN Goes("run") /\ UNCHANGED broken ELSE Fails
        PROVE  Inv'
    <2> DEFINE b == [boxes[here] EXCEPT !.runner = [is |-> is, of |-> source]]
    <2>1. b \in Sandboxes /\ b.work = boxes[here].work /\ b.runner.of = source
      BY <1>1, CheckerAssumption DEF Sandboxes
    <2>2. boxes' = [boxes EXCEPT ![here] = b]
      BY <1>3
    <2> HIDE DEF b
    <2>3. /\ boxes' \in Seq(Sandboxes) /\ Len(boxes') = Len(boxes)
          /\ boxes'[here] = b
          /\ \A i \in 1 .. Len(boxes) : i # here => boxes'[i] = boxes[i]
      BY <1>1, <2>1, <2>2, BoxChange DEF Inv
    <2>4. \A i \in 1 .. Len(boxes) : boxes'[i].runner.of <= source
      BY <1>1, <2>1, <2>3 DEF Inv, RunnerInv
    <2>5. CASE Fails
      BY <1>1, <2>3, <2>4, <2>5, FailsInv
    <2>6. CASE Goes("run") /\ UNCHANGED broken
      <3> USE <1>1, <2>1, <2>3, <2>4, <2>6 DEF Inv, Goes, setting
      <3>1. Typed'
        BY DEF Typed
      <3>2. RunnerInv'
        BY DEF RunnerInv
      <3>3. FileInv'
        BY DEF FileInv, Input, work
      <3> QED BY <3>1, <3>2, <3>3 DEF StepInv, PassIsEarned
    <2> QED BY <1>3, <2>5, <2>6
  <1> QED BY <1>2, <1>3 DEF Runner

(* The answer is looked at.                                                  *)
LEMMA RunInv == Inv /\ Run => Inv'
  <1> SUFFICES ASSUME Inv, Run PROVE Inv'
    OBVIOUS
  <1> USE DEF Run, End, Inv, setting
  <1>1. Typed' /\ RunnerInv' /\ StepInv' /\ FileInv'
    BY DEF Typed, RunnerInv, StepInv, FileInv
  <1>2. PassIsEarned'
    BY DEF PassIsEarned, Earned, Answered, FileInv, Input, RunnerInv, work
  <1> QED BY <1>1, <1>2

(* Every step, and every stutter, keeps the invariant.                       *)
LEMMA NextInv == Inv /\ [Next]_vars => Inv'
  <1> SUFFICES ASSUME Inv, [Next]_vars PROVE Inv'
    OBVIOUS
  <1>1. CASE Compile
    <2>1. Given \in File
      BY DEF Given, New, File, Contents
    <2>2. CASE AssemblyFails
      BY <2>2, FailsInv DEF AssemblyFails, Inv, Typed, RunnerInv
    <2>3. CASE Tool("compile", "ir", Given, "transpile")
      BY <2>1, <2>3, ToolInv
    <2> QED BY <1>1, <2>2, <2>3 DEF Compile
  <1>2. CASE Transpile
    <2>1. work.ir \in File
      BY WorkType DEF Inv
    <2> QED BY <1>2, <2>1, ToolInv DEF Transpile
  <1>3. CASE RunBreaks
    BY <1>3, FailsInv DEF RunBreaks, Inv, Typed, RunnerInv
  <1>4. CASE Stop
    <2> USE <1>4 DEF Stop, Inv, setting
    <2>1. Typed' /\ RunnerInv'
      BY DEF Typed, RunnerInv
    <2> QED BY <2>1 DEF StepInv, FileInv, PassIsEarned
  <1>5. CASE UNCHANGED vars
    <2> USE <1>5 DEF vars, Inv
    <2>1. Typed' /\ StepInv' /\ RunnerInv'
      BY DEF Typed, StepInv, RunnerInv
    <2>2. FileInv'
      BY DEF FileInv, Input, work
    <2> QED BY <2>1, <2>2 DEF PassIsEarned, Earned, work
  <1> QED BY <1>1, <1>2, <1>3, <1>4, <1>5, StartInv, NeedInv, LinkInv, DumpInv,
             RunnerStepInv, RunInv, CutInv, EditInv DEF Next

(* So it holds in every state of every sequence of verifications.            *)
THEOREM Checked == Spec => []Inv
  BY InitInv, NextInv, PTL DEF Spec

(* Every variable keeps to its range, however many sandboxes and edits.      *)
THEOREM TypeCorrect == Spec => []TypeOK
  <1>1. Inv => TypeOK
    <2> SUFFICES ASSUME Typed PROVE TypeOK
      BY DEF Inv
    <2>1. DOMAIN boxes = 1 .. Len(boxes)
      BY DEF Typed
    <2>2. \A b \in DOMAIN boxes : boxes[b] \in Sandboxes
      BY <2>1 DEF Typed
    <2> QED BY <2>1, <2>2 DEF Typed, TypeOK, Sandboxes, Work, File
  <1> QED BY <1>1, Checked, PTL

(* But for the bare-metal route, no PASS is owed to a file or a runner of an *)
(* earlier verification, wherever earlier ones were stopped.                 *)
THEOREM EveryPassEarned == Spec => []PassIsEarned
  <1>1. Inv => PassIsEarned
    BY DEF Inv
  <1> QED BY <1>1, Checked, PTL
=============================================================================
