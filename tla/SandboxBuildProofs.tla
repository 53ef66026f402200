------------------------- MODULE SandboxBuildProofs -------------------------
(* Proofs about build.sh, run_all.py and regen.sh on one sandbox, for any    *)
(* trees, commits and fingerprints and any number of commands.               *)
EXTENDS SandboxBuild, TLAPS

(* Where build.sh is past the cut, and where what it has read so far counts. *)
Building == {"plug bundle", "plug blob", "plug test", "plug compile", "plug stamp",
             "bundle", "blob", "ir", "transpile", "zig"}
Gathering == Building \ {"plug bundle", "bundle"}

(* A running command knows what it was asked for, and which subject it is at. *)
WantInv ==
  /\ at \notin {"idle", "stamp"} => want \in Subjects \cup {"all"}
  /\ at \in Building => subject \in Subjects

(* A plug and a fingerprint that stand side by side belong together, unless  *)
(* a kill or a full disk parted them; while the plug is made there is none,  *)
(* and until it is stamped it belongs to the bundle just made.               *)
PlugInv ==
  /\ at = "plug compile" => cdx = NoPlug
  /\ ~lapse /\ cdx # NoPlug =>
       IF at = "plug stamp" THEN cdx.whole /\ cdx.bundle = bundled
                            ELSE fp # None => cdx.whole /\ cdx.bundle = fp

(* All of a sandbox is of the commit its PROVENANCE names, unless a checkout *)
(* that moved under a build or a stamp that was changed mixed it; without a  *)
(* PROVENANCE there is nothing in it.                                        *)
BoxInv ==
  /\ OneSandboxOneCommit
  /\ Unmixed => \A t \in cdx.from : Sha[t] = prov
  /\ prov = None => /\ \A s \in Subjects : bin[s] = {}
                    /\ cdx.from = {} /\ result = NoResult

(* What the running command has read of the checkout, and what its window    *)
(* leaves true of that.                                                      *)
Steady == "build" \notin moved
Agreed == "launch" \notin moved

ReadInv ==
  /\ at = "launch" => prov = None /\ allSha # None /\ (Agreed => allSha = Sha[tree])
  /\ at = "cut" => /\ sha # None /\ (Steady => sha = Sha[tree])
                   /\ allSha # None => prov = None /\ (Agreed => allSha = sha)
  /\ at = "stamp" => sha # None
  /\ at \in Building => /\ prov = sha /\ sha # None
                        /\ Steady => Sha[tree] = sha
                        /\ Agreed => allSha \in {None, sha}
  /\ at \in Gathering => (Unmixed => \A t \in made : Sha[t] = prov)
  /\ at \in {"check", "red"} => prov # None /\ (Agreed => allSha = prov)

VerdictInv == ResultNamesItsTree

(* A build has built what comes before the subject it is at, and is not over. *)
Earlier(s) == {Order[j] : j \in {k \in DOMAIN Order : \A m \in DOMAIN Order : Order[m] = s => k < m}}

DoneInv ==
  /\ at \in Building \cup {"launch", "cut"} => exit = None
  /\ at \in {"launch", "cut"} => news = {}
  /\ at \in Building => news = IF want = "all" THEN Earlier(subject) ELSE {}
  /\ at \in Building /\ want # "all" => subject = want
  /\ DoneMeansBuilt

TypeInv == TypeOK /\ WantInv
CommitInv == BoxInv /\ ReadInv /\ VerdictInv
-----------------------------------------------------------------------------
(* A stale plug, for every history of edits, failures and kills.             *)
LEMMA InitPlug == Init => PlugInv
  BY DEF Init, PlugInv, NoPlug

(* Every step keeps plug and fingerprint together, or notes the lapse.       *)
LEMMA PlugStep == PlugInv /\ [Next]_vars => PlugInv'
  <1> SUFFICES ASSUME PlugInv, [Next]_vars PROVE PlugInv'
    OBVIOUS
  <1> USE DEF PlugInv
  <1>1. ASSUME NEW w \in Wants, Build(w) PROVE PlugInv'
    BY <1>1 DEF Build, Command
  <1>2. CASE RunAll \/ Regen
    BY <1>2 DEF RunAll, Regen, Command, box, history
  <1>3. CASE Launch \/ Cut \/ Stamp
    BY <1>3 DEF Launch, Cut, Exit, Go, Stamp, box
  <1>4. CASE BundlePlug \/ AssemblePlug
    BY <1>4 DEF BundlePlug, AssemblePlug, PlugFails, Go, Exit, box
  <1>5. CASE TestPlug
    BY <1>5 DEF TestPlug, Go
  <1>6. CASE CompilePlug
    <2>1. at = "plug compile" /\ cdx = NoPlug /\ fp' = fp
      BY <1>6 DEF CompilePlug
    <2>2. CASE cdx' = Compiled(TRUE) /\ Go("plug stamp")
      BY <2>1, <2>2 DEF Go, Compiled
    <2>3. CASE cdx' = cdx /\ PlugFails
      BY <2>1, <2>3 DEF PlugFails, Go, Exit
    <2>4. CASE /\ lapse' = (lapse \/ Ignored \/ fp # None)
               /\ IF Ignored THEN Go("plug stamp") ELSE Exit("failed")
      <3>1. ~lapse' => ~Ignored /\ fp' = None
        BY <2>1, <2>4 DEF Ignored
      <3>2. ~Ignored => at' # "plug stamp" /\ at' # "plug compile"
        BY <2>4 DEF Exit, Ignored
      <3>3. at' # "plug compile"
        BY <2>4 DEF Go, Exit, Ignored
      <3> QED BY <3>1, <3>2, <3>3
    <2> QED BY <1>6, <2>2, <2>3, <2>4 DEF CompilePlug
  <1>7. CASE StampPlug
    BY <1>7 DEF StampPlug, Go
  <1>8. CASE BundleSubject \/ AssembleSubject \/ CompileSubject \/ Transpile
    BY <1>8 DEF BundleSubject, AssembleSubject, CompileSubject, Transpile, StepFails, Go, Exit, box
  <1>9. CASE BuildZig
    BY <1>9 DEF BuildZig, StepFails, Exit, box
  <1>10. CASE Check \/ Red
    BY <1>10 DEF Check, Red, Verdict, Go
  <1>11. CASE Kill
    BY <1>11 DEF Kill, Compiled
  <1>12. CASE Change \/ Over \/ UNCHANGED vars
    BY <1>12 DEF Change, Over, vars, control, box
  <1> QED BY <1>1, <1>2, <1>3, <1>4, <1>5, <1>6, <1>7, <1>8, <1>9, <1>10, <1>11, <1>12 DEF Next

(* No tool is transpiled by an emitter of another bundle than the checkout   *)
(* holds, whatever failed, was killed or was edited before, but for a lapse. *)
THEOREM NoStalePlugEver == Spec => NoStalePlug
  <1>1. PlugInv /\ [Next]_vars => [Booted /\ ~lapse => PlugIsTheCheckouts]_vars
    <2> SUFFICES ASSUME PlugInv, Next, Booted, ~lapse PROVE PlugIsTheCheckouts
      OBVIOUS
    <2>1. at = "transpile" /\ at' = "zig"
      BY DEF Booted
    <2>2. Transpile
      BY <2>1 DEF Next, Build, RunAll, Launch, Regen, Stamp, Go, Command, Cut, BundlePlug, AssemblePlug,
         TestPlug, CompilePlug, StampPlug, BundleSubject, AssembleSubject, CompileSubject,
         BuildZig, Check, Red, Verdict, StepFails, PlugFails, Exit, Kill, Change, Over, control, vars
    <2>3. FpMatchesCheckout /\ cdx # NoPlug
      BY <2>1, <2>2 DEF Transpile, StepFails, Exit
    <2> QED BY <2>1, <2>3 DEF PlugInv, FpMatchesCheckout, PlugIsTheCheckouts
  <1> QED BY <1>1, InitPlug, PlugStep, PTL DEF Spec, NoStalePlug
-----------------------------------------------------------------------------
(* What comes after a subject are subjects.                                  *)
LEMMA RestAreSubjects ==
  ASSUME NEW w, NEW s \in Subjects, Rest(w, s) # <<>>
  PROVE  Head(Rest(w, s)) \in Subjects
  <1>1. PICK j \in DOMAIN Order : Order[j] = s /\ Rest(w, s) = SubSeq(Order, j + 1, Len(Order))
    BY DEF Rest, Subjects
  <1>2. DOMAIN Order = 1 .. 4 /\ Len(Order) = 4 /\ Order \in Seq(Subjects)
    BY DEF Order, Subjects
  <1>3. j + 1 \in DOMAIN Order /\ Head(Rest(w, s)) = Order[j + 1]
    BY <1>1, <1>2
  <1> QED BY <1>3 DEF Subjects

(* What is known of a plug, whole or in part.                                *)
LEMMA PlugRecords ==
  /\ NoPlug.from = {} /\ NoPlug.whole = FALSE
  /\ \A all \in BOOLEAN : Compiled(all).from = made \cup {tree} /\ Compiled(all).whole = all
  BY DEF NoPlug, Compiled

(* A commit is a value of sha, and a first subject is a subject.             *)
LEMMA Values ==
  /\ None \in Shas /\ \A t \in Trees : Sha[t] \in Shas
  /\ MaxRuns \in Nat /\ MaxMoves \in Nat /\ Wants \subseteq Subjects \cup {"all"}
  /\ \A w \in Subjects \cup {"all"} : First(w) \in Subjects
  BY SandboxAssumption DEF Shas, First, Subjects, Order

(* Counting up to a bound.                                                   *)
LEMMA CountedUp ==
  ASSUME NEW top \in Nat, NEW n \in 0 .. top
  PROVE  0 \in 0 .. top /\ (n < top => n + 1 \in 0 .. top)
  OBVIOUS

(* The variables start in their ranges.                                      *)
LEMMA InitTyped == Init => TypeInv
  <1> SUFFICES ASSUME Init PROVE TypeInv
    OBVIOUS
  <1>1. bin \in [Subjects -> SUBSET Trees]
    BY DEF Init
  <1>2. runs \in 0 .. MaxRuns /\ cdx.from \subseteq Trees /\ cdx.whole \in BOOLEAN
    BY Values DEF Init, NoPlug
  <1>3. moves \in 0 .. MaxMoves /\ moved \subseteq {"launch", "build"} /\ restamped \in BOOLEAN
    <2>1. MaxMoves \in Nat /\ moves = 0
      BY SandboxAssumption DEF Init
    <2>2. moves \in 0 .. MaxMoves
      BY <2>1
    <2>3. moved = {} /\ restamped = FALSE
      BY DEF Init
    <2> QED BY <2>2, <2>3
  <1> QED BY <1>1, <1>2, <1>3, Values DEF Init, TypeInv, TypeOK, WantInv, Building

(* Every step keeps them there.                                              *)
LEMMA TypeStep == TypeInv /\ [Next]_vars => TypeInv'
  <1> SUFFICES ASSUME TypeInv, [Next]_vars PROVE TypeInv'
    OBVIOUS
  <1> USE Values DEF TypeInv, TypeOK, WantInv, Building, history
  <1>1. ASSUME NEW w \in Wants, Build(w) PROVE TypeInv'
    BY <1>1 DEF Build, Command
  <1>2. CASE RunAll
    <2>1. runs' \in 0 .. MaxRuns /\ at' \in {"launch", "check", "idle"} /\ want' = "all"
          /\ allSha' \in Shas /\ sha' = sha /\ exit' = None /\ news' = {}
      BY <1>2 DEF RunAll, Command
    <2> QED BY <1>2, <2>1 DEF RunAll, Command
  <1>2a. CASE Regen
    <2>1. runs' \in 0 .. MaxRuns /\ at' \in {"idle", "stamp"} /\ sha' \in Shas
          /\ want' = want /\ allSha' = allSha /\ exit' = None /\ news' = {}
      BY <1>2a DEF Regen, Command
    <2> QED BY <1>2a, <2>1 DEF Regen, Command
  <1>3. CASE Launch
    BY <1>3 DEF Launch, box
  <1>3a. CASE Cut
    BY <1>3a DEF Cut, Exit
  <1>3b. CASE Stamp
    BY <1>3b DEF Stamp, Restamps, Go
  <1>4. CASE BundlePlug \/ AssemblePlug
    BY <1>4 DEF BundlePlug, AssemblePlug, PlugFails, Go, Exit, box
  <1>5. CASE TestPlug
    <2>1. cdx'.from \subseteq Trees /\ cdx'.whole \in BOOLEAN /\ lapse' \in BOOLEAN
      BY <1>5, PlugRecords DEF TestPlug
    <2> QED BY <1>5, <2>1 DEF TestPlug, Go
  <1>6. CASE CompilePlug
    <2>1. cdx' \in {cdx, Compiled(TRUE), Compiled(FALSE)}
      BY <1>6 DEF CompilePlug
    <2>2. cdx'.from \subseteq Trees /\ cdx'.whole \in BOOLEAN
      BY <2>1, PlugRecords
    <2>3. lapse' \in BOOLEAN
      BY <1>6 DEF CompilePlug, Ignored
    <2>4. made' = made /\ UNCHANGED <<prov, fp, bin, result, history>>
          /\ (Go("plug stamp") \/ Go("bundle") \/ Exit("failed"))
      BY <1>6 DEF CompilePlug, PlugFails, Exit
    <2>5. at = "plug compile"
      BY <1>6 DEF CompilePlug
    <2> QED BY <2>2, <2>3, <2>4, <2>5 DEF Go, Exit
  <1>7. CASE StampPlug
    BY <1>7 DEF StampPlug, Go
  <1>8. CASE BundleSubject \/ AssembleSubject \/ CompileSubject \/ Transpile
    BY <1>8 DEF BundleSubject, AssembleSubject, CompileSubject, Transpile, StepFails, Go, Exit, box
  <1>9. CASE BuildZig
    BY <1>9, RestAreSubjects DEF BuildZig, StepFails, Exit, box, AfterSubject
  <1>10. CASE Check \/ Red
    BY <1>10 DEF Check, Red, Verdict, Go
  <1>11. CASE Kill
    <2>1. cdx' \in {cdx, NoPlug, Compiled(TRUE), Compiled(FALSE)}
      BY <1>11 DEF Kill
    <2>2. cdx'.from \subseteq Trees /\ cdx'.whole \in BOOLEAN
      BY <2>1, PlugRecords
    <2>3. lapse' \in BOOLEAN /\ restamped' \in BOOLEAN /\ prov' \in Shas \cup {Torn}
      BY <1>11 DEF Kill, Restamps
    <2> QED BY <1>11, <2>2, <2>3 DEF Kill
  <1>12. CASE Change
    <2>1. Window \subseteq {"launch", "build"}
      BY DEF Window
    <2>2. moved' \subseteq {"launch", "build"}
      BY <1>12, <2>1 DEF Change
    <2>3. moves' \in 0 .. MaxMoves
      <3>1. MaxMoves \in Nat /\ moves \in 0 .. MaxMoves
        OBVIOUS
      <3>2. moves' = moves \/ (moves < MaxMoves /\ moves' = moves + 1)
        BY <1>12 DEF Change
      <3>3. moves < MaxMoves => moves + 1 \in 0 .. MaxMoves
        BY <3>1, CountedUp
      <3> QED BY <3>1, <3>2, <3>3, Zenon
    <2>4. tree' \in Trees /\ UNCHANGED <<control, prov, cdx, fp, bin, result, lapse, restamped>>
      BY <1>12 DEF Change
    <2> QED BY <2>2, <2>3, <2>4 DEF control
  <1>13. CASE Over \/ UNCHANGED vars
    BY <1>13 DEF Over, vars, control, box
  <1> QED BY <1>1, <1>2, <1>2a, <1>3, <1>3a, <1>3b, <1>4, <1>5, <1>6, <1>7, <1>8, <1>9, <1>10,
             <1>11, <1>12, <1>13 DEF Next

(* Every variable keeps to its range.                                        *)
THEOREM TypeCorrect == Spec => []TypeOK
  <1>1. TypeInv => TypeOK
    BY DEF TypeInv
  <1> QED BY <1>1, InitTyped, TypeStep, PTL DEF Spec
-----------------------------------------------------------------------------
(* One sandbox, one commit.                                                  *)
LEMMA InitCommit == Init => CommitInv
  BY DEF Init, CommitInv, BoxInv, ReadInv, VerdictInv, ResultNamesItsTree,
         OneSandboxOneCommit, NoPlug, Building, Gathering

(* Every step keeps the sandbox, and what is read for it, of one commit, or  *)
(* has a history of why not.                                                 *)
LEMMA CommitStep == TypeInv /\ CommitInv /\ [Next]_vars => CommitInv'
  <1> SUFFICES ASSUME TypeInv, CommitInv, [Next]_vars PROVE CommitInv'
    OBVIOUS
  <1> USE SandboxAssumption DEF TypeInv, TypeOK, WantInv, CommitInv, BoxInv, ReadInv, VerdictInv,
          OneSandboxOneCommit, ResultNamesItsTree, Unmixed, Steady, Agreed, Building, Gathering,
          history
  <1>0. \A t \in Trees : Sha[t] \notin {None, Torn}
    OBVIOUS
  <1>1. ASSUME NEW w \in Wants, Build(w) PROVE CommitInv'
    BY <1>1 DEF Build, Command
  <1>2. CASE RunAll
    BY <1>2 DEF RunAll, Command, SandboxMatches
  <1>2a. CASE Regen
    BY <1>2a DEF Regen, Command
  <1>3. CASE Launch
    BY <1>3 DEF Launch, box
  <1>3a. CASE Cut
    BY <1>3a DEF Cut, Exit, CutAgainst
  <1>3b. CASE Stamp
    BY <1>3b DEF Stamp, Restamps, Go
  <1>4. CASE BundlePlug \/ AssemblePlug
    BY <1>4 DEF BundlePlug, AssemblePlug, PlugFails, Go, Exit, box
  <1>5. CASE TestPlug
    <2>1. \A t \in cdx'.from : t \in cdx.from
      BY <1>5, PlugRecords DEF TestPlug
    <2> QED BY <1>5, <2>1 DEF TestPlug, Go
  <1>6. CASE CompilePlug
    <2>1. cdx' \in {cdx, Compiled(TRUE), Compiled(FALSE)} /\ at = "plug compile"
      BY <1>6 DEF CompilePlug
    <2>2. Unmixed => \A t \in cdx'.from : Sha[t] = prov
      BY <2>1, PlugRecords
    <2>3. made' = made /\ UNCHANGED <<prov, fp, bin, result, history>>
          /\ (Go("plug stamp") \/ Go("bundle") \/ Exit("failed"))
      BY <1>6 DEF CompilePlug, PlugFails, Exit
    <2> QED BY <2>1, <2>2, <2>3 DEF Go, Exit
  <1>7. CASE StampPlug
    BY <1>7 DEF StampPlug, Go
  <1>8. CASE BundleSubject \/ AssembleSubject \/ CompileSubject \/ Transpile
    BY <1>8 DEF BundleSubject, AssembleSubject, CompileSubject, Transpile, StepFails, Go, Exit, box
  <1>9. CASE BuildZig
    <2>1. CASE StepFails
      BY <1>9, <2>1 DEF BuildZig, StepFails, Exit, box
    <2>2. CASE bin' = [bin EXCEPT ![subject] = made] /\ ~StepFails
      <3>1. /\ at = "zig" /\ at' \in {"bundle", "idle", "check"}
            /\ at' = "check" => allSha # None
            /\ UNCHANGED <<tree, sha, allSha, made, prov, cdx, result, moved, restamped>>
        BY <1>9, <2>2 DEF BuildZig
      <3>2. Unmixed => \A s \in Subjects : \A t \in bin'[s] : Sha[t] = prov
        BY <2>2, <3>1
      <3> QED BY <3>1, <3>2
    <2> QED BY <1>9, <2>1, <2>2 DEF BuildZig
  <1>10. CASE Check \/ Red
    <2>1. PICK green, built \in BOOLEAN :
            result' = [sha |-> allSha, green |-> green, built |-> built]
      BY <1>10 DEF Check, Red, Verdict
    <2>2. at \in {"check", "red"} /\ at' = "idle"
          /\ UNCHANGED <<tree, sha, allSha, made, prov, cdx, bin, history>>
      BY <1>10 DEF Check, Red, Verdict, Go
    <2>3. result'.sha = allSha
      BY <2>1
    <2> QED BY <2>2, <2>3
  <1>11. CASE Kill
    <2>1. CASE at = "plug compile"
      <3>1. cdx' \in {NoPlug, Compiled(TRUE), Compiled(FALSE)}
        BY <1>11, <2>1 DEF Kill
      <3>2. Unmixed => \A t \in cdx'.from : Sha[t] = prov
        BY <2>1, <3>1, PlugRecords
      <3> QED BY <1>11, <2>1, <3>2 DEF Kill, Restamps
    <2>2. CASE at # "plug compile"
      <3>1. /\ at' = "idle" /\ UNCHANGED <<tree, sha, allSha, made, cdx, bin, result, moved>>
            /\ restamped => restamped'
            /\ prov' = prov \/ (prov' = Torn /\ (prov = None \/ restamped'))
        BY <1>11, <2>2 DEF Kill, Restamps
      <3>2. prov = None => (\A s \in Subjects : bin[s] = {}) /\ cdx.from = {} /\ result = NoResult
        OBVIOUS
      <3>3. BoxInv'
        BY <3>1, <3>2 DEF None, Torn
      <3>4. ReadInv'
        BY <3>1
      <3>5. VerdictInv'
        BY <3>1, <3>2
      <3> QED BY <3>3, <3>4, <3>5
    <2> QED BY <2>1, <2>2
  <1>12. CASE Change
    <2>1. /\ moved \subseteq moved'
          /\ Sha[tree'] # Sha[tree] => moved' = moved \cup Window
          /\ tree' \in Trees
          /\ UNCHANGED <<control, prov, cdx, bin, result, restamped>>
      BY <1>12 DEF Change
    <2>2. at = "launch" => Window = {"launch"}
      BY DEF Window
    <2>3. at = "cut" \/ at \in Building => Window = {"build"}
      BY DEF Window
    <2> QED BY <2>1, <2>2, <2>3 DEF control
  <1>13. CASE Over \/ UNCHANGED vars
    BY <1>13 DEF Over, vars, control, box
  <1> QED BY <1>1, <1>2, <1>2a, <1>3, <1>3a, <1>3b, <1>4, <1>5, <1>6, <1>7, <1>8, <1>9, <1>10,
             <1>11, <1>12, <1>13 DEF Next

(* Both invariants hold, however often the checkout moves.                   *)
LEMMA OneCommit == Spec => [](TypeInv /\ CommitInv)
  BY InitTyped, TypeStep, InitCommit, CommitStep, PTL DEF Spec

(* Nothing in a sandbox was made from another commit than its PROVENANCE     *)
(* names, but for a checkout that moved under a build and a stamp that       *)
(* regen.sh changed: a sandbox that is killed, reused, refused, checked or   *)
(* regenerated in any order is not mixed by anything else.                   *)
THEOREM SandboxOfOneCommit == Spec => []OneSandboxOneCommit
  <1>1. CommitInv => OneSandboxOneCommit
    BY DEF CommitInv, BoxInv
  <1> QED BY <1>1, OneCommit, PTL

(* RESULT names that commit too, unless the checkout moved between the two   *)
(* looks or regen.sh changed the stamp.                                      *)
THEOREM ResultOfOneCommit == Spec => []ResultNamesItsTree
  <1>1. CommitInv => ResultNamesItsTree
    BY DEF CommitInv, VerdictInv
  <1> QED BY <1>1, OneCommit, PTL
-----------------------------------------------------------------------------
(* What follows a subject is the next of Order; nothing follows the last.    *)
LEMMA Positions ==
  /\ DOMAIN Order = 1 .. 4 /\ Len(Order) = 4
  /\ Subjects = {Order[1], Order[2], Order[3], Order[4]}
  /\ \A i, j \in 1 .. 4 : Order[i] = Order[j] => i = j
  BY DEF Order, Subjects

(* Those before the i-th subject.                                            *)
LEMMA EarlierOnes ==
  ASSUME NEW i \in 1 .. 4 PROVE Earlier(Order[i]) = {Order[j] : j \in 1 .. i - 1}
  <1>1. {k \in 1 .. 4 : \A m \in 1 .. 4 : Order[m] = Order[i] => k < m} = 1 .. i - 1
    BY Positions
  <1> QED BY <1>1, Positions DEF Earlier

(* What is still to be built and what was built make up all subjects.        *)
LEMMA RestFollows ==
  ASSUME NEW s \in Subjects
  PROVE  /\ Rest("all", s) = <<>> => Earlier(s) \cup {s} = Subjects
         /\ Rest("all", s) # <<>> => Earlier(Head(Rest("all", s))) = Earlier(s) \cup {s}
  <1>1. PICK j \in 1 .. 4 : Order[j] = s /\ Rest("all", s) = SubSeq(Order, j + 1, 4)
    BY Positions DEF Rest
  <1>2. Earlier(s) \cup {s} = {Order[k] : k \in 1 .. j}
    BY <1>1, EarlierOnes
  <1>3. Order \in Seq(Subjects)
    BY DEF Order, Subjects
  <1>4. Len(Rest("all", s)) = 4 - j
    BY <1>1, <1>3, Positions
  <1>5. CASE j = 4
    <2>1. Rest("all", s) = <<>>
      BY <1>1, <1>3, <1>5, Positions
    <2>2. {Order[k] : k \in 1 .. 4} = Subjects
      BY Positions
    <2> QED BY <1>2, <1>5, <2>1, <2>2
  <1>6. CASE j < 4
    <2>1. Rest("all", s) # <<>> /\ Head(Rest("all", s)) = Order[j + 1] /\ j + 1 \in 1 .. 4
      BY <1>1, <1>3, <1>4, <1>6, Positions
    <2>2. Earlier(Order[j + 1]) = {Order[k] : k \in 1 .. j}
      BY <2>1, EarlierOnes
    <2> QED BY <1>2, <2>1, <2>2
  <1> QED BY <1>5, <1>6

(* Nothing comes before the first subject.                                   *)
LEMMA FirstIsFirst == \A w \in Subjects \cup {"all"} :
  IF w = "all" THEN Earlier(First(w)) = {} ELSE First(w) = w
  <1>1. First("all") = Order[1] /\ Earlier(Order[1]) = {}
    BY EarlierOnes DEF First
  <1> QED BY <1>1 DEF First

(* Nothing is built, and no build is over.                                   *)
LEMMA InitDone == Init => DoneInv
  BY DEF Init, DoneInv, DoneMeansBuilt, Building, None

(* Every step keeps the account of what is built.                            *)
LEMMA DoneStep == TypeInv /\ DoneInv /\ [Next]_vars => DoneInv'
  <1> SUFFICES ASSUME TypeInv, DoneInv, [Next]_vars PROVE DoneInv'
    OBVIOUS
  <1>0. WantInv /\ None # "ok"
    BY DEF TypeInv, None
  <1> USE <1>0 DEF DoneInv, DoneMeansBuilt, WantInv, Building, history
  <1>1. ASSUME NEW w \in Wants, Build(w) PROVE DoneInv'
    BY <1>1 DEF Build, Command
  <1>2. CASE RunAll \/ Regen
    BY <1>2 DEF RunAll, Regen, Command
  <1>3. CASE Launch \/ Stamp
    BY <1>3 DEF Launch, Stamp, Go, box
  <1>4. CASE Cut
    BY <1>4, FirstIsFirst DEF Cut, Exit
  <1>5. CASE BundlePlug \/ AssemblePlug
    BY <1>5 DEF BundlePlug, AssemblePlug, PlugFails, Go, Exit, box
  <1>6. CASE TestPlug \/ StampPlug
    BY <1>6 DEF TestPlug, StampPlug, Go
  <1>7. CASE CompilePlug
    <2>1. at = "plug compile" /\ (Go("plug stamp") \/ Go("bundle") \/ Exit("failed"))
      BY <1>7 DEF CompilePlug, PlugFails
    <2> QED BY <2>1 DEF Go, Exit
  <1>8. CASE BundleSubject \/ AssembleSubject \/ CompileSubject \/ Transpile
    BY <1>8 DEF BundleSubject, AssembleSubject, CompileSubject, Transpile, StepFails, Go, Exit, box
  <1>9. CASE BuildZig
    <2>1. CASE StepFails
      BY <2>1 DEF StepFails, Exit
    <2>2. CASE news' = news \cup {subject}
      <3>1. at = "zig" /\ want' = want /\ subject \in Subjects
        BY <1>9 DEF BuildZig, StepFails, Exit
      <3>2. CASE want = "all"
        BY <1>9, <2>2, <3>1, <3>2, RestFollows DEF BuildZig, StepFails, Exit, AfterSubject
      <3>3. CASE want # "all"
        BY <1>9, <2>2, <3>1, <3>3 DEF BuildZig, StepFails, Exit, AfterSubject, Rest
      <3> QED BY <3>2, <3>3
    <2> QED BY <1>9, <2>1, <2>2 DEF BuildZig
  <1>10. CASE Check \/ Red
    BY <1>10 DEF Check, Red, Verdict, Go
  <1>11. CASE Kill
    BY <1>11 DEF Kill
  <1>12. CASE Change \/ Over \/ UNCHANGED vars
    BY <1>12 DEF Change, Over, vars, control, box
  <1> QED BY <1>1, <1>2, <1>3, <1>4, <1>5, <1>6, <1>7, <1>8, <1>9, <1>10, <1>11, <1>12 DEF Next

(* A build that exits 0 has built everything it was asked for.               *)
THEOREM DoneIsBuilt == Spec => []DoneMeansBuilt
  <1>1. DoneInv => DoneMeansBuilt
    BY DEF DoneInv
  <1> QED BY <1>1, InitTyped, TypeStep, InitDone, DoneStep, PTL DEF Spec
=============================================================================
