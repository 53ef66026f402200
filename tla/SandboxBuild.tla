---------------------------- MODULE SandboxBuild ----------------------------
(***************************************************************************)
(* build.sh with the functions of lib.sh, plug_run_ring.py's refusal of a   *)
(* stale plug, and run_all.py: what one sandbox holds and what is claimed   *)
(* of it, over several runs, with failing steps, kills, a full disk, and a  *)
(* checkout that is edited or moves.                                        *)
(*                                                                          *)
(* A tree is a content of the checkout CODEX_ROOT names.  Two trees may     *)
(* have the same commit (an edit that is not committed) and the same plug   *)
(* bundle (a change elsewhere).  An artifact is known by the trees that     *)
(* were read to make it.                                                    *)
(***************************************************************************)
EXTENDS Naturals, Sequences

CONSTANTS
  Trees,      \* contents of the checkout
  Sha,        \* the commit of each: a function
  Bundle,     \* the fingerprint of the plug bundle of each: a function
  Wants,      \* the arguments build.sh is given
  Faults,     \* of "kill", "disk": what may go wrong
  MaxRuns,    \* bound: how many commands are run
  MaxMoves    \* bound: how often the checkout changes under a command

None == "none"
Torn == "torn"     \* a PROVENANCE without its codex-sha line

(* Cheapest first.                                                          *)
Order == <<"fib", "zigemit", "codexir", "x86emit">>
Subjects == {Order[i] : i \in DOMAIN Order}

ASSUME SandboxAssumption ==
  /\ Trees \subseteq DOMAIN Sha /\ Trees \subseteq DOMAIN Bundle
  /\ \A t \in Trees : Sha[t] \notin {None, Torn}
  /\ Wants \subseteq Subjects \cup {"all"}
  /\ Faults \subseteq {"kill", "disk"}
  /\ MaxRuns \in Nat /\ MaxMoves \in Nat

(* ringplug.cdx: what it was compiled from, and whether all of it is there. *)
NoPlug == [bundle |-> None, from |-> {}, whole |-> FALSE]
NoResult == [sha |-> None, green |-> FALSE, built |-> FALSE]

VARIABLES
  tree,      \* what the checkout holds
  runs,      \* commands run so far
  at,        \* the step the running command is at, "idle" without one
  want,      \* the argument of build.sh
  sha,       \* CODEX_SHA, as build.sh read it
  allSha,    \* the sha run_all read, None when build.sh runs alone
  subject,   \* the subject build_one is building
  bundled,   \* the fingerprint of the plug source just bundled
  made,      \* the trees read for what is being made
  news,      \* the binaries this command has built
  exit,      \* how the last build.sh ended: None, "ok", "failed"
  prov,      \* the sandbox: codex-sha in its PROVENANCE, ringplug.cdx,
  cdx,       \*   ringplug.cdx.fp, each native binary (the trees it was made
  fp,        \*   from; {} when there is none) and RESULT
  bin,
  result,
  lapse,     \* history: a plug was left beside a fingerprint not its own
  moves,     \* history: changes of the checkout under a command
  moved,     \* history: in which windows the checkout changed its commit
  restamped  \* history: regen.sh changed the stamp of a sandbox in use

control == <<runs, at, want, sha, allSha, subject, bundled, made, news, exit>>
history == <<moves, moved, restamped>>
box     == <<prov, cdx, fp, bin, result, lapse, history>>
vars    == <<tree, control, box>>

Init ==
  /\ tree \in Trees /\ runs = 0
  /\ at = "idle" /\ want = None /\ sha = None /\ allSha = None
  /\ subject = None /\ bundled = None /\ made = {} /\ news = {} /\ exit = None
  /\ prov = None /\ cdx = NoPlug /\ fp = None
  /\ bin = [s \in Subjects |-> {}] /\ result = NoResult /\ lapse = FALSE
  /\ moves = 0 /\ moved = {} /\ restamped = FALSE

Go(step) ==
  /\ at' = step
  /\ UNCHANGED <<tree, runs, want, sha, allSha, subject, bundled, news, exit>>

(* build.sh exits; under run_all its exit status decides what comes next.   *)
Exit(how) ==
  /\ exit' = how
  /\ at' = IF allSha = None THEN "idle" ELSE IF how = "ok" THEN "check" ELSE "red"
  /\ UNCHANGED <<tree, runs, want, sha, allSha, subject, bundled, made, news>>
-----------------------------------------------------------------------------
(* The commands, given one at a time.                                       *)
Command ==
  /\ at = "idle" /\ runs < MaxRuns
  /\ runs' = runs + 1
  /\ news' = {} /\ exit' = None
  /\ UNCHANGED <<tree, subject, bundled, made, cdx, fp, bin, result, lapse, history>>

Build(w) ==
  /\ Command /\ UNCHANGED prov
  /\ want' = w /\ sha' = Sha[tree] /\ allSha' = None
  /\ at' = "cut"

(* run_all.py checks the sandbox it is given when that has a PROVENANCE,    *)
(* and otherwise has a new one built.                                       *)
MutAnySandbox == TRUE
SandboxMatches == prov = Sha[tree]

RunAll ==
  /\ Command /\ UNCHANGED prov
  /\ want' = "all" /\ allSha' = Sha[tree] /\ UNCHANGED sha
  /\ IF prov = None THEN at' = "launch"
     ELSE IF SandboxMatches THEN at' = "check"
     ELSE at' = "idle"

(* build.sh reads the sha for itself.                                       *)
Launch ==
  /\ at = "launch"
  /\ sha' = Sha[tree] /\ at' = "cut"
  /\ UNCHANGED <<tree, runs, want, allSha, subject, bundled, made, news, exit, box>>
-----------------------------------------------------------------------------
(* wgsl/regen.sh reads the checkout's commit, looks for what is to be done,  *)
(* and stamps the sandbox it is given whatever PROVENANCE is there, before   *)
(* it makes any kernel.                                                      *)
Regen ==
  /\ Command
  /\ sha' = Sha[tree] /\ at' \in {"idle", "stamp"}
  /\ UNCHANGED <<want, allSha, prov>>

Restamps == restamped' = (restamped \/ (prov # None /\ prov' # prov))

Stamp ==
  /\ at = "stamp"
  /\ prov' = sha
  /\ Restamps
  /\ Go("idle")
  /\ UNCHANGED <<made, cdx, fp, bin, result, lapse, moves, moved>>
-----------------------------------------------------------------------------
(* build.sh cuts the sandbox, or refuses one cut against another commit.    *)
MutReused(s) == TRUE
CutAgainst(s) == prov = s

MutSubjectIsWant(w) == w
First(w) == IF w = "all" THEN Order[1] ELSE w

Cut ==
  /\ at = "cut"
  /\ \/ /\ prov = None \/ CutAgainst(sha)
        /\ prov' = IF prov = None THEN sha ELSE prov
        /\ subject' = First(want)
        /\ at' = "plug bundle"
        /\ UNCHANGED <<tree, runs, want, sha, allSha, bundled, made, news, exit>>
     \/ /\ prov # None /\ ~CutAgainst(sha)
        /\ Exit("failed") /\ UNCHANGED prov
  /\ UNCHANGED <<cdx, fp, bin, result, lapse, history>>
-----------------------------------------------------------------------------
(* ring_plug_fresh, called before the first subject.  For x86emit it is     *)
(* called in `... && ring_plug_fresh || true`: its failure is ignored, and  *)
(* `set -e` is off inside it.                                               *)
Ignored == want = "x86emit"

PlugFails == IF Ignored THEN Go("bundle") /\ UNCHANGED made ELSE Exit("failed")

BundlePlug ==
  /\ at = "plug bundle"
  /\ \/ /\ bundled' = Bundle[tree] /\ made' = {tree}
        /\ at' = "plug blob"
        /\ UNCHANGED <<tree, runs, want, sha, allSha, subject, news, exit>>
     \/ PlugFails
  /\ UNCHANGED box

AssemblePlug ==
  /\ at = "plug blob"
  /\ \/ Go("plug test") /\ made' = made \cup {tree}
     \/ PlugFails
  /\ UNCHANGED box

(* A fingerprint that matches spares the compile; else the old plug goes.   *)
TestPlug ==
  /\ at = "plug test"
  /\ IF cdx # NoPlug /\ fp = bundled
       THEN Go("bundle") /\ UNCHANGED <<cdx, fp, lapse>>
       ELSE Go("plug compile") /\ cdx' = NoPlug /\ UNCHANGED fp /\ lapse' = FALSE
  /\ UNCHANGED <<made, prov, bin, result, history>>

Compiled(all) == [bundle |-> bundled, from |-> made \cup {tree}, whole |-> all]

(* ring_compile.py writes the plug or fails; a write that runs out of disk  *)
(* fails with part of the file there, which `-s` does not tell from all.    *)
(* The old fingerprint, if any, is still there.                             *)
CompilePlug ==
  /\ at = "plug compile"
  /\ \/ cdx' = Compiled(TRUE) /\ Go("plug stamp") /\ UNCHANGED <<made, lapse>>
     \/ UNCHANGED <<cdx, lapse>> /\ PlugFails
     \/ /\ "disk" \in Faults
        /\ cdx' = Compiled(FALSE) /\ lapse' = (lapse \/ Ignored \/ fp # None)
        /\ IF Ignored THEN Go("plug stamp") /\ UNCHANGED made ELSE Exit("failed")
  /\ UNCHANGED <<prov, fp, bin, result, history>>

StampPlug ==
  /\ at = "plug stamp"
  /\ fp' = bundled
  /\ Go("bundle")
  /\ UNCHANGED <<made, prov, cdx, bin, result, lapse, history>>
-----------------------------------------------------------------------------
(* build_one: each step removes what it is to write and stops the build if  *)
(* it fails.  fib is a chapter of this repository and needs no bundling.    *)
StepFails == Exit("failed") /\ UNCHANGED box

BundleSubject ==
  /\ at = "bundle"
  /\ \/ /\ Go("blob") /\ made' = IF subject = "fib" THEN {} ELSE {tree}
        /\ UNCHANGED box
     \/ StepFails

AssembleSubject ==
  /\ at = "blob"
  /\ \/ Go("ir") /\ made' = made \cup {tree} /\ UNCHANGED box
     \/ StepFails

(* The seed is booted from the checkout.                                    *)
CompileSubject ==
  /\ at = "ir"
  /\ \/ Go("transpile") /\ made' = made \cup {tree} /\ UNCHANGED box
     \/ StepFails

(* refuse_stale_ringplug bundles the plug again and compares.               *)
MutNoBackstop == fp # None
FpMatchesCheckout == fp # None /\ fp = Bundle[tree]

Transpile ==
  /\ at = "transpile"
  /\ \/ /\ FpMatchesCheckout /\ cdx # NoPlug
        /\ Go("zig") /\ made' = made \cup cdx.from /\ UNCHANGED box
     \/ StepFails

(* What comes after a subject: the rest of Order when all were asked for.   *)
Rest(w, s) ==
  IF w = "all"
    THEN LET i == CHOOSE j \in DOMAIN Order : Order[j] = s
         IN SubSeq(Order, i + 1, Len(Order))
    ELSE <<>>
MutWantClobbered(w, s) == <<>>
AfterSubject(w, s) == Rest(w, s)

BuildZig ==
  /\ at = "zig"
  /\ \/ /\ bin' = [bin EXCEPT ![subject] = made]
        /\ news' = news \cup {subject}
        /\ LET rest == AfterSubject(want, subject)
           IN IF rest # <<>>
                THEN subject' = Head(rest) /\ at' = "bundle" /\ UNCHANGED exit
                ELSE /\ UNCHANGED subject /\ exit' = "ok"
                     /\ at' = IF allSha = None THEN "idle" ELSE "check"
        /\ UNCHANGED <<tree, runs, want, sha, allSha, bundled, made,
                       prov, cdx, fp, result, lapse, history>>
     \/ StepFails
-----------------------------------------------------------------------------
(* run_all's checkers: all may pass only with their tools there and with    *)
(* CODEX_ROOT at the sandbox's commit.  Then RESULT.                        *)
Checkable ==
  /\ \A s \in {"zigemit", "codexir", "x86emit"} : bin[s] # {}
  /\ cdx # NoPlug /\ fp = Bundle[tree] /\ prov = Sha[tree]

Verdict(green) ==
  /\ result' = [sha |-> allSha, green |-> green, built |-> exit # None]
  /\ Go("idle")
  /\ UNCHANGED <<made, prov, cdx, fp, bin, lapse, history>>

Check == at = "check" /\ \E green \in BOOLEAN : (green => Checkable) /\ Verdict(green)

Red == at = "red" /\ Verdict(FALSE)
-----------------------------------------------------------------------------
(* A kill leaves what was written so far.                                   *)
Kill ==
  /\ "kill" \in Faults /\ at # "idle"
  /\ at' = "idle"
  /\ IF at = "stamp" \/ (at = "cut" /\ prov = None)
       THEN prov' \in {prov, Torn}
       ELSE UNCHANGED prov
  /\ Restamps
  /\ IF at = "plug compile"
       THEN cdx' \in {NoPlug, Compiled(FALSE), Compiled(TRUE)}
       ELSE UNCHANGED cdx
  /\ lapse' = \/ lapse
              \/ at \in {"plug compile", "plug stamp"} /\ cdx' # NoPlug /\ fp # None
  /\ UNCHANGED <<tree, runs, want, sha, allSha, subject, bundled, made, news,
                 exit, fp, bin, result, moves, moved>>

(* Between run_all's look at the commit and build.sh's, and from there to    *)
(* the end of the build.                                                    *)
Window ==
  CASE at = "launch" -> {"launch"}
    [] at \in {"idle", "stamp", "check", "red"} -> {}
    [] OTHER -> {"build"}

(* The checkout is edited or changes commit, between two commands or at any *)
(* moment.                                                                  *)
Change ==
  /\ IF at = "idle" THEN UNCHANGED moves
                     ELSE moves < MaxMoves /\ moves' = moves + 1
  /\ tree' \in Trees \ {tree}
  /\ moved' = IF Sha[tree'] # Sha[tree] THEN moved \cup Window ELSE moved
  /\ UNCHANGED <<control, prov, cdx, fp, bin, result, lapse, restamped>>

Over == at = "idle" /\ runs = MaxRuns /\ UNCHANGED vars

Next ==
  \/ \E w \in Wants : Build(w)
  \/ RunAll \/ Launch \/ Regen \/ Stamp \/ Cut
  \/ BundlePlug \/ AssemblePlug \/ TestPlug \/ CompilePlug \/ StampPlug
  \/ BundleSubject \/ AssembleSubject \/ CompileSubject \/ Transpile \/ BuildZig
  \/ Check \/ Red
  \/ Kill \/ Change \/ Over

Spec == Init /\ [][Next]_vars
-----------------------------------------------------------------------------
Shas == {Sha[t] : t \in Trees} \cup {None}

(* Every variable keeps to its range.                                       *)
TypeOK ==
  /\ tree \in Trees /\ runs \in 0 .. MaxRuns
  /\ at \in {"idle", "launch", "stamp", "cut", "plug bundle", "plug blob", "plug test",
             "plug compile", "plug stamp", "bundle", "blob", "ir", "transpile",
             "zig", "check", "red"}
  /\ want \in Wants \cup {"all", None} /\ sha \in Shas /\ allSha \in Shas
  /\ subject \in Subjects \cup {None} /\ made \subseteq Trees
  /\ news \subseteq Subjects /\ exit \in {None, "ok", "failed"}
  /\ prov \in Shas \cup {Torn} /\ bin \in [Subjects -> SUBSET Trees]
  /\ cdx.from \subseteq Trees /\ cdx.whole \in BOOLEAN /\ lapse \in BOOLEAN
  /\ moves \in 0 .. MaxMoves /\ moved \subseteq {"launch", "build"} /\ restamped \in BOOLEAN

(* A plug is never booted to transpile unless all of it is there and it was *)
(* compiled from the bundle the checkout holds: no old emitter stamps a new *)
(* tool, whatever failed, was killed or edited before, but for a lapse.     *)
Booted == at = "transpile" /\ at' = "zig"
PlugIsTheCheckouts == cdx.whole /\ cdx.bundle = Bundle[tree]
NoStalePlug == [][Booted /\ ~lapse => PlugIsTheCheckouts]_vars

(* The same without exception: a fingerprint that matches means that this   *)
(* exact plug is compiled.                                                  *)
MatchMeansCompiled == [][Booted => PlugIsTheCheckouts]_vars

(* One sandbox, one commit: nothing in a sandbox was made from a tree of    *)
(* another commit than its PROVENANCE names.  Two things break it, and no   *)
(* other: a checkout that changes its commit while build.sh runs, which     *)
(* looks once, and regen.sh, which does not look.                           *)
Unmixed == "build" \notin moved /\ ~restamped
OneSandboxOneCommit ==
  Unmixed => \A s \in Subjects : \A t \in bin[s] : Sha[t] = prov

(* A build that exits 0 has built everything it was asked for.              *)
DoneMeansBuilt ==
  exit = "ok" => news = IF want = "all" THEN Subjects ELSE {want}

(* RESULT attributes its verdict to the commit the sandbox was cut against, *)
(* unless the checkout changed between run_all's own look and build.sh's,   *)
(* or regen.sh stamped the sandbox anew.  A checkout that changes at any    *)
(* other moment does no harm to it.                                         *)
ResultNamesItsTree ==
  result # NoResult /\ "launch" \notin moved /\ ~restamped => result.sha = prov
=============================================================================
