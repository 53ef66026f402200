---------------------------- MODULE HarnessDecks ----------------------------
(***************************************************************************)
(* The chapter emit_harness.py generates, as it runs in the guest: the      *)
(* compiler's phases over each subject, in the order and with the memory    *)
(* reservations frontend_source and pipeline_source write around them.      *)
(*                                                                          *)
(* The guest bumps two cursors and frees nothing.  The BIVY is the heap     *)
(* frontier; the DECK is a region below it that `build` reserves.  Inside a *)
(* deck-record extent allocation goes to the deck, under the ceiling `build`*)
(* published; outside it goes to the bivy.  The prologue's reservation      *)
(* publishes none, so what a subject puts on the deck before the first      *)
(* `build` may run past its end.  The allocator and the phases are the      *)
(* compiler's, modelled by what the generator says of them.                 *)
(***************************************************************************)
EXTENDS Integers, Sequences, FiniteSets

CONSTANTS
  Units,      \* the harnesses generated: [lift, passes]
  Height,     \* the size of each reservation: a function
  Defs,       \* definitions of a subject, each an object for every phase
  MaxSize,    \* an object is of 1 .. MaxSize cells
  Subjects,   \* how many subjects a unit runs
  Passed,     \* CHECK_CHAPTER_ARITY
  Signatures  \* declarations check-chapter may have: parameters and a result

Reservations ==
  {"prologue", "keep", "check", "lower_keep", "lower", "resolve", "lift", "emit"}

Token == {"name", "open", "close", "comma", "arrow"}   \* of a declaration

ASSUME DecksAssumption ==
  /\ Units \subseteq [lift : BOOLEAN, passes : BOOLEAN]
  /\ Height \in [Reservations -> Nat \ {0}]
  /\ Defs \in Nat /\ MaxSize \in Nat \ {0} /\ Subjects \in Nat \ {0} /\ Passed \in Nat
  /\ \A sig \in Signatures : sig.params \in Seq(Seq(Token)) /\ sig.result \in Seq(Token)

VARIABLES
  lift,      \* frontend_source(lift=True), which ends in IR; or run-<prefix>
  passes,    \* the IR pipeline runs between lowering and resolution
  takes,     \* the parameters check-chapter takes, once the chapter is there
  subject,   \* subjects whose end mark is printed
  step,      \* the position in Plan; 0 before the chapter is generated
  item,      \* definitions the phase at step is through with
  deck,      \* deck-pos
  bivy,      \* the heap frontier
  top,       \* deck-reservation-top-cell, 0 at startup
  base,      \* the let-bound base of each reservation
  floor,     \* deck-base: the heap top of the prologue
  used,      \* cells allocated in the reservation the deck is in
  room,      \* and how many it has; in emission, the lift's, whose top is armed
  kept,      \* cells of its keep the phase at hand has filled
  live,      \* the cells a later phase reads
  lost,      \* live cells that were allocated once more
  spilled,   \* cells allocated beyond an end that no guard watches
  spare,     \* what was left of a reservation when it was said to be spent
  fate       \* "running", "refused", "trapped", "done"

cursors == <<deck, bivy, top, base, floor, used, room, kept>>
objects == <<live, lost, spilled>>
unit == <<lift, passes, takes>>
vars == <<unit, subject, step, item, cursors, objects, spare, fate>>

Init ==
  /\ \E u \in Units : lift = u.lift /\ passes = u.passes
  /\ takes = 0
  /\ subject = 0 /\ step = 0 /\ item = 0
  /\ deck = 0 /\ bivy = 0 /\ top = 0 /\ base = [r \in Reservations |-> 0]
  /\ floor = 0 /\ used = 0 /\ room = 0 /\ kept = 0
  /\ live = {} /\ lost = {} /\ spilled = {} /\ spare = 0 /\ fate = "running"
-----------------------------------------------------------------------------
(* Generating the chapter.  require_arity reads the declaration's tokens:   *)
(* the commas at depth 0 before the last top-level arrow, plus one.         *)
Item(parts, n) == IF n = 1 THEN parts[n] ELSE <<"comma">> \o parts[n]
Join(parts) ==
  LET upto[n \in 0 .. Len(parts)] == IF n = 0 THEN <<>> ELSE upto[n - 1] \o Item(parts, n)
  IN upto[Len(parts)]
Tokens(sig) == Join(sig.params) \o <<"arrow">> \o sig.result

Count(s, n, t) == Cardinality({i \in 1 .. n : s[i] = t})
TopLevel(s, i) == Count(s, i, "open") = Count(s, i, "close")

(* What it relies on: each parameter closes the parentheses it opens and     *)
(* has its commas inside them, and the result is no function.               *)
ASSUME SignaturesAssumption ==
  \A sig \in Signatures :
    /\ sig.params # <<>>
    /\ \A k \in DOMAIN sig.params :
         /\ TopLevel(sig.params[k], Len(sig.params[k]))
         /\ \A i \in DOMAIN sig.params[k] : sig.params[k][i] = "comma" => ~TopLevel(sig.params[k], i)
    /\ \A i \in DOMAIN sig.result : sig.result[i] = "arrow" => ~TopLevel(sig.result, i)

Arity(s) ==
  LET arrows == {i \in DOMAIN s : s[i] = "arrow" /\ TopLevel(s, i)}
      cut == IF arrows = {} THEN Len(s) + 1
             ELSE CHOOSE i \in arrows : \A j \in arrows : j <= i
  IN Cardinality({i \in 1 .. cut - 1 : s[i] = "comma" /\ TopLevel(s, i)}) + 1

(* An under-applied phase call is a value and no error, so a declaration    *)
(* that moved is refused here.                                              *)
Generate ==
  /\ step = 0 /\ fate = "running"
  /\ \E sig \in Signatures :
       /\ takes' = Len(sig.params)
       /\ IF Arity(Tokens(sig)) = Passed
            THEN step' = 1 /\ UNCHANGED fate
            ELSE fate' = "refused" /\ UNCHANGED step
  /\ UNCHANGED <<lift, passes, subject, item, cursors, objects, spare>>
-----------------------------------------------------------------------------
(* The let-chain of one subject.                                            *)
Do(what, of) == [do |-> what, of |-> of]

Prologue   == <<Do("prologue", "prologue")>>
CheckSetup == <<Do("build", "keep"), Do("build", "check")>>
LowerSetup == <<Do("build", "lower_keep"), Do("build", "lower"), Do("set", "lower")>>
ResolveSetup == <<Do("build", "resolve")>>
LiftSetup  == <<Do("build", "lift")>>
MutUnsealed == <<>>
EmitSeal   == <<Do("compact", "lift")>>

Passes == IF passes THEN <<Do("phase", "passes")>> ELSE <<>>

Frontend ==
  Prologue \o <<Do("phase", "front")>>
  \o CheckSetup \o <<Do("phase", "check"), Do("phase", "tables")>>
  \o LowerSetup \o <<Do("phase", "lower")>> \o Passes
  \o ResolveSetup \o <<Do("phase", "resolve")>>

Pipeline == Frontend \o LiftSetup \o EmitSeal \o <<Do("emit_build", "emit"), Do("phase", "emit")>>

Plan ==
  IF lift THEN Frontend \o LiftSetup \o <<Do("phase", "lift"), Do("handover", "lift")>>
  ELSE Pipeline \o <<Do("release", "prologue")>>

At(what) == fate = "running" /\ step # 0 /\ Plan[step].do = what
Here == Plan[step].of
NextStep == step' = step + 1 /\ item' = 0
-----------------------------------------------------------------------------
(* init-phase-allocator and one region for every phase, as one reservation  *)
(* that publishes no top.                                                   *)
Advanced(at, height) == at + height

StartSubject ==
  /\ At("prologue")
  /\ floor' = bivy /\ deck' = bivy
  /\ bivy' = Advanced(bivy, Height["prologue"])
  /\ used' = 0 /\ room' = Height["prologue"] /\ kept' = 0
  /\ NextStep
  /\ UNCHANGED <<unit, subject, top, base, objects, spare, fate>>

Build ==
  /\ At("build")
  /\ base' = [base EXCEPT ![Here] = bivy]
  /\ deck' = bivy /\ bivy' = bivy + Height[Here] /\ top' = bivy'
  /\ used' = 0 /\ room' = Height[Here] /\ kept' = 0
  /\ NextStep
  /\ UNCHANGED <<unit, subject, floor, objects, spare, fate>>

DeckSet ==
  /\ At("set")
  /\ deck' = base[Here] /\ used' = 0 /\ room' = Height[Here]
  /\ NextStep
  /\ UNCHANGED <<unit, subject, bivy, top, base, floor, kept, objects, spare, fate>>

(* phase-compact: the frontier comes back to the deck cursor.               *)
Compact ==
  /\ At("compact")
  /\ bivy' = deck
  /\ NextStep
  /\ UNCHANGED <<unit, subject, deck, top, base, floor, used, room, kept, objects, spare, fate>>

(* emit-build is build without publishing its top.                          *)
EmitBuild ==
  /\ At("emit_build")
  /\ base' = [base EXCEPT !["emit"] = bivy]
  /\ deck' = bivy /\ bivy' = bivy + Height["emit"] /\ used' = 0
  /\ NextStep
  /\ UNCHANGED <<unit, subject, top, floor, room, kept, objects, spare, fate>>
-----------------------------------------------------------------------------
(* The phases, an object at a time.                                         *)
Object(at, size) == at .. at + size - 1

(* The compiler's phases allocate inside an extent only where the harness   *)
(* wraps the call in deck-record.                                           *)
MutCheckBare(phase) == phase # "check"
Wrapped(phase) == phase \notin {"front", "tables", "passes"}

InPhase(phase) == At("phase") /\ Here = phase /\ item < Defs

(* An object later phases read, and what is read only while it is made.     *)
Made(obj, work) ==
  /\ live' = live \cup obj
  /\ lost' = lost \cup ((obj \cup work) \cap live) \cup (obj \cap work)
  /\ item' = item + 1

(* The guard of an allocation in an extent: armed once a top is published.  *)
MutSpentLate(size) == top # 0 /\ deck > top
Spent(size) == top # 0 /\ deck + size > top

Trap ==
  /\ fate' = "trapped" /\ spare' = room - used
  /\ UNCHANGED <<unit, subject, step, item, cursors, objects>>

(* Two reservations have an end that no guard watches: the prologue's,      *)
(* before the first build, and emission's, where the top that is armed is   *)
(* the lift's.                                                              *)
Unwatched == Here \in {"front", "emit"}
End == IF Here = "emit" THEN base["emit"] + Height["emit"] ELSE floor + Height["prologue"]
Beyond(obj) == {c \in obj : Unwatched /\ c >= End}

OnDeck(size, work) ==
  /\ ~Spent(size)
  /\ deck' = deck + size /\ used' = used + size
  /\ Made(Object(deck, size), work)
  /\ spilled' = spilled \cup Beyond(Object(deck, size))
  /\ UNCHANGED <<unit, subject, step, bivy, top, base, floor, room, kept, spare, fate>>

OnBivy(size, frontier) ==
  /\ Made(Object(frontier, size), {})
  /\ bivy' = IF frontier = bivy THEN bivy + size ELSE bivy
  /\ UNCHANGED <<unit, subject, step, deck, top, base, floor, used, room, kept,
                 spilled, spare, fate>>

(* Made on the deck, and copied into the phase's keep.                      *)
Copied(keep, size, work) ==
  /\ Made(Object(base[keep] + kept, size), Object(deck, size) \cup work)
  /\ kept' = kept + size
  /\ UNCHANGED <<unit, subject, step, bivy, top, base, floor, room, spilled, spare, fate>>

(* A walk that takes a ceiling stops where it finds it reached, and hands   *)
(* on what it has.                                                          *)
Short(of, cursor, size) == cursor + size > base[of] + Height[of]
Full(keep, size) == kept + size > Height[keep]

CutShort(left) ==
  /\ spare' = left
  /\ NextStep
  /\ UNCHANGED <<unit, subject, cursors, objects, fate>>

(* Before and between: to the bivy, but for diagnostics, which wrap.        *)
Unwrapped(size) ==
  /\ InPhase("front") \/ InPhase("tables") \/ InPhase("passes")
  /\ OnBivy(size, bivy) \/ OnDeck(size, {}) \/ (Spent(size) /\ Trap)

(* check-chapter leaves the caller's extent, wraps each result, and takes   *)
(* its bivy scratch back; a batch it reclaims is copied into the keep first.*)
(* Without a caller's extent its own wrap is none.                          *)
Check(size) ==
  /\ InPhase("check")
  /\ IF Short("check", deck, size) THEN CutShort(room - used)
     ELSE IF ~Wrapped("check") THEN OnBivy(size, bivy + size)
     ELSE \/ OnDeck(size, Object(bivy, size))
          \/ /\ ~Full("keep", size)
             /\ Copied("keep", size, Object(bivy, size))
             /\ UNCHANGED <<deck, used>>

(* lower-chapter takes the deck position for its scratch base, copies what  *)
(* it keeps, and stops at either ceiling.                                   *)
Lower(size) ==
  /\ InPhase("lower")
  /\ IF Short("lower", deck, size) THEN CutShort(room - used)
     ELSE IF Full("lower_keep", size) THEN CutShort(Height["lower_keep"] - kept)
     ELSE /\ Copied("lower_keep", size, {})
          /\ deck' = deck + size /\ used' = used + size

(* It may start its scratch over.                                           *)
ScratchBack ==
  /\ InPhase("lower") /\ used # 0
  /\ deck' = base["lower"] /\ used' = 0
  /\ UNCHANGED <<unit, subject, step, item, bivy, top, base, floor, room, kept,
                 objects, spare, fate>>

(* rewrite-ir-defs and lift-lambdas ask deck-bound-short-of before each.    *)
Walk(size) ==
  /\ InPhase("resolve") \/ InPhase("lift")
  /\ LET cursor == IF Wrapped(Here) THEN deck ELSE bivy
     IN IF Short(Here, cursor, size) THEN CutShort(room - used)
        ELSE IF Wrapped(Here) THEN OnDeck(size, {}) ELSE OnBivy(size, bivy)

(* emit-all-defs takes each function's bivy back; what is wrapped survives. *)
Emit(size) ==
  InPhase("emit") /\ (OnDeck(size, Object(bivy, size)) \/ (Spent(size) /\ Trap))

PhaseEnds ==
  /\ At("phase") /\ item = Defs
  /\ NextStep
  /\ UNCHANGED <<unit, subject, cursors, objects, spare, fate>>

(* The dump is printed; the arena goes back; then the end mark.             *)
MutKeptArena == bivy
Released == floor

Release ==
  /\ At("release")
  /\ bivy' = Released /\ live' = {} /\ lost' = {} /\ spilled' = {}
  /\ subject' = subject + 1
  /\ IF subject' = Subjects THEN fate' = "done" /\ UNCHANGED <<step, item>>
                            ELSE step' = 1 /\ item' = 0 /\ UNCHANGED fate
  /\ UNCHANGED <<unit, deck, top, base, floor, used, room, kept, spare>>

(* What is made of the lifted IR is the business of frontend_source's caller; *)
(* no generator of this repository is one with lift=True.                     *)
HandOn ==
  /\ At("handover")
  /\ fate' = "done"
  /\ UNCHANGED <<unit, subject, step, item, cursors, objects, spare>>

Over == fate # "running" /\ UNCHANGED vars

Next ==
  \/ Generate \/ StartSubject \/ Build \/ DeckSet \/ Compact \/ EmitBuild
  \/ \E size \in 1 .. MaxSize :
       Unwrapped(size) \/ Check(size) \/ Lower(size) \/ Walk(size) \/ Emit(size)
  \/ ScratchBack \/ PhaseEnds \/ Release \/ HandOn \/ Over

Spec == Init /\ [][Next]_vars
-----------------------------------------------------------------------------
(* Every variable keeps to its range, and the deck to its reservation, but  *)
(* for the prologue's.                                                      *)
TypeOK ==
  /\ lift \in BOOLEAN /\ passes \in BOOLEAN /\ takes \in Nat
  /\ subject \in 0 .. Subjects /\ step \in 0 .. Len(Plan) /\ item \in 0 .. Defs
  /\ deck \in Nat /\ bivy \in Nat /\ top \in Nat /\ base \in [Reservations -> Nat]
  /\ used \in Nat /\ (step \notin 2 .. 3 => used <= room)
  /\ fate \in {"running", "refused", "trapped", "done"}

(* No phase allocates over what a later one reads, whichever cursor it is   *)
(* on: no reservation forgotten, no extent left out, no memory taken back   *)
(* early.  What is lost is lost to a deck no guard watches that ran past    *)
(* its end: the prologue's (the corruption emit_harness.py:89-92 records),  *)
(* or emission's, if it is lower than the lift's.                           *)
NothingOverwritten == lost \subseteq spilled

(* A trap, and a walk that is cut short, come only of a reservation that    *)
(* really is used up.                                                       *)
AlarmIsReal == spare < MaxSize

(* A unit runs only with its phase calls fully applied, and every subject   *)
(* starts on the heap the first one started on.                             *)
StartsAfresh ==
  step = 1 => bivy = 0 /\ takes = Passed
=============================================================================
