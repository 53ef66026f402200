------------------------- MODULE HarnessDecksProofs -------------------------
(* Proofs about the generated harness, for any heights of its reservations,  *)
(* any subjects, definitions and sizes of objects, and for declarations of   *)
(* any number of parameters.                                                 *)
EXTENDS HarnessDecks, FiniteSetTheorems, SequenceTheorems,
        WellFoundedInduction, TLAPS

(* A unit with the IR passes is a step longer from there on.                 *)
skip == IF passes THEN 1 ELSE 0

(* The end of the reservation the deck is in.                                *)
Limit == deck + (room - used)

(* After the lift reservation is set up and sealed nothing goes to the bivy. *)
Emitting == ~lift /\ step >= 14 + skip

Typed ==
  /\ lift \in BOOLEAN /\ passes \in BOOLEAN /\ takes \in Nat
  /\ subject \in 0 .. Subjects /\ step \in 0 .. Len(Plan) /\ item \in 0 .. Defs
  /\ deck \in Nat /\ bivy \in Nat /\ top \in Nat /\ base \in [Reservations -> Nat]
  /\ room \in Nat /\ used \in Nat /\ kept \in Nat /\ spare \in Int
  /\ step \notin 2 .. 3 => used <= room
  /\ fate \in {"running", "refused", "trapped", "done"}
  /\ live \subseteq Nat

(* Before a subject's prologue the heap is what it was at startup.           *)
StartInv == /\ floor = 0 /\ subject < Subjects
            /\ step <= 1 => bivy = 0 /\ live = {}

(* What the deck may fill is below the frontier, and from the first build on *)
(* the published top is its end.                                             *)
CeilingInv ==
  /\ top = 0 \/ top >= Height["prologue"]
  /\ step >= 2 /\ ~Emitting => bivy >= Height["prologue"]
  /\ step = 2 => deck = used /\ room = Height["prologue"]
  /\ step >= 4 => top = Limit /\ top # 0
  /\ step >= 2 /\ ~Emitting => Limit <= bivy

(* A keep lies below the scratch built behind it, and is filled upwards.     *)
KeepBelow(keep, of) ==
  base[keep] + Height[keep] = base[of] /\ base[of] <= deck /\ kept <= Height[keep]

(* The reservation each walk measures itself against is the one it is in.    *)
BaseInv ==
  /\ step = 4 => /\ base["keep"] = deck /\ kept = 0
                 /\ Limit = deck + Height["keep"] /\ Limit = bivy
  /\ step = 5 => KeepBelow("keep", "check") /\ base["check"] + Height["check"] = top
  /\ step = 8 => /\ base["lower_keep"] = deck /\ kept = 0
                 /\ Limit = deck + Height["lower_keep"] /\ Limit = bivy
  /\ step \in 9 .. 10 => /\ KeepBelow("lower_keep", "lower")
                         /\ base["lower"] + used = deck /\ Limit = base["lower"] + Height["lower"]
  /\ step = 12 + skip => base["resolve"] + Height["resolve"] = top
  /\ step = 14 + skip => base["lift"] + Height["lift"] = top
  /\ step \in 14 + skip .. 15 + skip /\ ~lift => used = 0
  /\ step = 15 + skip /\ ~lift => bivy = deck
  /\ step = 16 + skip /\ ~lift => bivy = base["emit"] + Height["emit"]

(* A cell of the keep that is still to be filled.                            *)
InKeep(keep, c) == base[keep] + kept <= c /\ c < base[keep] + Height[keep]

(* What is live lies below the frontier and where no reservation is still to *)
(* be filled, but for what ran past an end that no guard watches.            *)
LiveInv ==
  \A c \in live \ spilled :
    /\ step >= 2 => c < bivy
    /\ step >= 2 /\ ~Emitting => ~(deck <= c /\ c < Limit)
    /\ Emitting => c < deck
    /\ step = 5 => ~InKeep("keep", c)
    /\ step \in 9 .. 10 => c < base["lower"] /\ ~InKeep("lower_keep", c)

Running == fate = "running" => StartInv /\ CeilingInv /\ BaseInv /\ LiveInv

Inv == Typed /\ NothingOverwritten /\ AlarmIsReal /\ Running
-----------------------------------------------------------------------------
(* The let-chain of a subject, entry by entry.                               *)
LEMMA PlanIs ==
  /\ Plan[1] = Do("prologue", "prologue") /\ Plan[2] = Do("phase", "front")
  /\ Plan[3] = Do("build", "keep")        /\ Plan[4] = Do("build", "check")
  /\ Plan[5] = Do("phase", "check")       /\ Plan[6] = Do("phase", "tables")
  /\ Plan[7] = Do("build", "lower_keep")  /\ Plan[8] = Do("build", "lower")
  /\ Plan[9] = Do("set", "lower")         /\ Plan[10] = Do("phase", "lower")
  /\ passes => Plan[11] = Do("phase", "passes")
  /\ Plan[11 + skip] = Do("build", "resolve")
  /\ Plan[12 + skip] = Do("phase", "resolve")
  /\ Plan[13 + skip] = Do("build", "lift")
  /\ lift  => /\ Len(Plan) = 15 + skip
              /\ Plan[14 + skip] = Do("phase", "lift")
              /\ Plan[15 + skip] = Do("handover", "lift")
  /\ ~lift => /\ Len(Plan) = 17 + skip
              /\ Plan[14 + skip] = Do("compact", "lift")
              /\ Plan[15 + skip] = Do("emit_build", "emit")
              /\ Plan[16 + skip] = Do("phase", "emit")
              /\ Plan[17 + skip] = Do("release", "prologue")
  <1>1. PICK a1, a2, a3, a4, a5, a6, a7, a8, a9, a10 :
          /\ a1 = Do("prologue", "prologue") /\ a2 = Do("phase", "front")
          /\ a3 = Do("build", "keep")        /\ a4 = Do("build", "check")
          /\ a5 = Do("phase", "check")       /\ a6 = Do("phase", "tables")
          /\ a7 = Do("build", "lower_keep")  /\ a8 = Do("build", "lower")
          /\ a9 = Do("set", "lower")         /\ a10 = Do("phase", "lower")
    OBVIOUS
  <1>2. PICK b1, b2, b3, b4, b5, b6 :
          /\ b1 = Do("phase", "passes") /\ b2 = Do("build", "resolve")
          /\ b3 = Do("phase", "resolve") /\ b4 = Do("build", "lift")
          /\ b5 = Do("phase", "lift") /\ b6 = Do("handover", "lift")
    OBVIOUS
  <1>3. PICK c1, c2, c3, c4 :
          /\ c1 = Do("compact", "lift") /\ c2 = Do("emit_build", "emit")
          /\ c3 = Do("phase", "emit") /\ c4 = Do("release", "prologue")
    OBVIOUS
  <1> DEFINE front == <<a1>> \o <<a2>> \o <<a3, a4>> \o <<a5, a6>> \o <<a7, a8, a9>> \o <<a10>>
             all1 == front \o <<b1>> \o <<b2>> \o <<b3>>
             all0 == front \o <<>> \o <<b2>> \o <<b3>>
             lifted1 == all1 \o <<b4>> \o <<b5, b6>>
             lifted0 == all0 \o <<b4>> \o <<b5, b6>>
             emitted1 == all1 \o <<b4>> \o <<c1>> \o <<c2, c3>> \o <<c4>>
             emitted0 == all0 \o <<b4>> \o <<c1>> \o <<c2, c3>> \o <<c4>>
             Begin(s) == /\ s[1] = a1 /\ s[2] = a2 /\ s[3] = a3 /\ s[4] = a4 /\ s[5] = a5
                         /\ s[6] = a6 /\ s[7] = a7 /\ s[8] = a8 /\ s[9] = a9 /\ s[10] = a10
             Back(s, k) == s[11 + k] = b2 /\ s[12 + k] = b3 /\ s[13 + k] = b4
  <1>4. Plan = IF lift THEN IF passes THEN lifted1 ELSE lifted0
                       ELSE IF passes THEN emitted1 ELSE emitted0
    <2> USE <1>1, <1>2, <1>3 DEF Plan, Pipeline, Frontend, Prologue, CheckSetup, LowerSetup,
                                 Passes, ResolveSetup, LiftSetup, EmitSeal
    <2>1. CASE passes
      BY <2>1, Zenon
    <2>2. CASE ~passes
      BY <2>2, Zenon
    <2> QED BY <2>1, <2>2
  <1>5. /\ Len(lifted1) = 16 /\ Begin(lifted1) /\ lifted1[11] = b1
        /\ Back(lifted1, 1) /\ lifted1[15] = b5 /\ lifted1[16] = b6
    OBVIOUS
  <1>6. /\ Len(lifted0) = 15 /\ Begin(lifted0)
        /\ Back(lifted0, 0) /\ lifted0[14] = b5 /\ lifted0[15] = b6
    OBVIOUS
  <1>7. /\ Len(emitted1) = 18 /\ Begin(emitted1) /\ emitted1[11] = b1
        /\ Back(emitted1, 1) /\ emitted1[15] = c1 /\ emitted1[16] = c2
        /\ emitted1[17] = c3 /\ emitted1[18] = c4
    OBVIOUS
  <1>8. /\ Len(emitted0) = 17 /\ Begin(emitted0)
        /\ Back(emitted0, 0) /\ emitted0[14] = c1 /\ emitted0[15] = c2
        /\ emitted0[16] = c3 /\ emitted0[17] = c4
    OBVIOUS
  <1> HIDE DEF lifted1, lifted0, emitted1, emitted0
  <1>9. CASE passes /\ lift
    BY <1>1, <1>2, <1>4, <1>5, <1>9 DEF skip
  <1>10. CASE passes /\ ~lift
    BY <1>1, <1>2, <1>3, <1>4, <1>7, <1>10 DEF skip
  <1>11. CASE ~passes /\ lift
    BY <1>1, <1>2, <1>4, <1>6, <1>11 DEF skip
  <1>12. CASE ~passes /\ ~lift
    BY <1>1, <1>2, <1>3, <1>4, <1>8, <1>12 DEF skip
  <1> QED BY <1>9, <1>10, <1>11, <1>12

(* The plan is that of the unit, whatever else changes.                      *)
LEMMA PlanStays == UNCHANGED <<lift, passes>> => Plan' = Plan /\ skip' = skip
  BY DEF Plan, Pipeline, Frontend, Passes, Prologue, CheckSetup, LowerSetup,
         ResolveSetup, LiftSetup, EmitSeal, skip, Do

(* Where in it each kind of entry is, and that it ends with the last two.    *)
LEMMA Where ==
  ASSUME Typed, step # 0
  PROVE  LET do == Plan[step].do
             of == Plan[step].of
             n  == 13 + skip
         IN /\ skip \in {0, 1} /\ step \in 1 .. 17 + skip
            /\ do = "prologue" => step = 1
            /\ do = "build" => \/ step = 3 /\ of = "keep"
                               \/ step = 4 /\ of = "check"
                               \/ step = 7 /\ of = "lower_keep"
                               \/ step = 8 /\ of = "lower"
                               \/ step = n - 2 /\ of = "resolve"
                               \/ step = n /\ of = "lift"
            /\ do = "set" => step = 9 /\ of = "lower"
            /\ do = "phase" => \/ step = 2 /\ of = "front"
                               \/ step = 5 /\ of = "check"
                               \/ step = 6 /\ of = "tables"
                               \/ step = 10 /\ of = "lower"
                               \/ step = 11 /\ skip = 1 /\ of = "passes"
                               \/ step = n - 1 /\ of = "resolve"
                               \/ step = n + 1 /\ lift /\ of = "lift"
                               \/ step = n + 3 /\ ~lift /\ of = "emit"
            /\ do = "compact" => step = n + 1 /\ ~lift
            /\ do = "emit_build" => step = n + 2 /\ ~lift
            /\ do = "release" => step = n + 4 /\ ~lift
            /\ do = "handover" => step = n + 2 /\ lift
            /\ do \notin {"release", "handover"} => step < Len(Plan)
  <1> DEFINE n == 13 + skip
  <1>1. skip = IF passes THEN 1 ELSE 0
    BY DEF skip
  <1>2. Len(Plan) = IF lift THEN n + 2 ELSE n + 4
    BY <1>1, PlanIs
  <1>3. \/ step \in {1, 2, 3, 4, 5, 6, 7, 8, 9, 10}
        \/ step = 11 /\ passes
        \/ step \in {n - 2, n - 1, n, n + 1, n + 2}
        \/ step \in {n + 3, n + 4} /\ ~lift
    BY <1>1, <1>2 DEF Typed
  <1>4. skip \in {0, 1} /\ step \in 1 .. 17 + skip
    BY <1>1, <1>3
  <1> DEFINE do == Plan[step].do
             of == Plan[step].of
  <1>5. \/ step = 1 /\ do = "prologue" /\ of = "prologue"
        \/ step = 2 /\ do = "phase" /\ of = "front"
        \/ step = 3 /\ do = "build" /\ of = "keep"
        \/ step = 4 /\ do = "build" /\ of = "check"
        \/ step = 5 /\ do = "phase" /\ of = "check"
        \/ step = 6 /\ do = "phase" /\ of = "tables"
        \/ step = 7 /\ do = "build" /\ of = "lower_keep"
        \/ step = 8 /\ do = "build" /\ of = "lower"
        \/ step = 9 /\ do = "set" /\ of = "lower"
        \/ step = 10 /\ do = "phase" /\ of = "lower"
        \/ step = 11 /\ skip = 1 /\ do = "phase" /\ of = "passes"
        \/ step = n - 2 /\ do = "build" /\ of = "resolve"
        \/ step = n - 1 /\ do = "phase" /\ of = "resolve"
        \/ step = n /\ do = "build" /\ of = "lift"
        \/ step = n + 1 /\ lift /\ do = "phase" /\ of = "lift"
        \/ step = n + 2 /\ lift /\ do = "handover" /\ of = "lift"
        \/ step = n + 1 /\ ~lift /\ do = "compact" /\ of = "lift"
        \/ step = n + 2 /\ ~lift /\ do = "emit_build" /\ of = "emit"
        \/ step = n + 3 /\ ~lift /\ do = "phase" /\ of = "emit"
        \/ step = n + 4 /\ ~lift /\ do = "release" /\ of = "prologue"
    BY <1>1, <1>3, PlanIs DEF Do
  <1>6. \/ step = n + 4
        \/ step = n + 2 /\ lift
        \/ step < Len(Plan)
    BY <1>1, <1>2, <1>3
  <1> QED BY <1>4, <1>5, <1>6
-----------------------------------------------------------------------------
(* The cells of an object.                                                   *)
LEMMA ObjectCells ==
  ASSUME NEW at \in Nat, NEW size \in 1 .. MaxSize
  PROVE  \A c : c \in Object(at, size) <=> c \in Nat /\ at <= c /\ c < at + size
  BY DecksAssumption DEF Object

(* Heights are heights.                                                      *)
LEMMA Heights == \A r \in Reservations : Height[r] \in Nat \ {0}
  BY DecksAssumption

(* A step of the plan that adds no object.                                   *)
LEMMA NoObject ==
  ASSUME Inv, \/ UNCHANGED objects
              \/ live' = {} /\ lost' = {} /\ spilled' = {},
         spare' = spare
  PROVE  /\ NothingOverwritten' /\ AlarmIsReal' /\ spare' \in Int /\ live' \subseteq Nat
  BY DEF Inv, NothingOverwritten, AlarmIsReal, Typed, objects

(* The plan goes on where it does not end.                                   *)
LEMMA Goes ==
  ASSUME Inv, NextStep, step # 0, UNCHANGED <<lift, passes>>,
         Plan[step].do \notin {"release", "handover"}
  PROVE  /\ step' = step + 1 /\ step' \in 0 .. Len(Plan)'
         /\ item' = 0 /\ item' \in 0 .. Defs /\ skip' = skip
  <1>1. step < Len(Plan) /\ step \in Nat /\ Plan' = Plan /\ skip' = skip
    BY Where, PlanStays DEF Inv, Typed
  <1>2. Len(Plan)' = Len(Plan)
    BY <1>1
  <1>3. PICK l \in Nat : l = Len(Plan)
    BY PlanIs DEF Inv, Typed, skip
  <1>4. step + 1 \in 0 .. l
    BY <1>1, <1>3
  <1> QED BY <1>1, <1>2, <1>3, <1>4, DecksAssumption DEF NextStep

(* A unit that is generated, its heap as it was at startup.                  *)
LEMMA InitInv == Init => Inv
  <1> SUFFICES ASSUME Init PROVE Inv
    OBVIOUS
  <1>1. PICK u \in Units : lift = u.lift /\ passes = u.passes
    BY DEF Init
  <1>2. lift \in BOOLEAN /\ passes \in BOOLEAN
    BY <1>1, DecksAssumption
  <1>3. 0 \in 0 .. Len(Plan)
    BY <1>2, PlanIs DEF skip
  <1>4. skip \in {0, 1}
    BY DEF skip
  <1>5. Typed
    BY <1>2, <1>3, DecksAssumption DEF Init, Typed
  <1>6. StartInv /\ CeilingInv
    BY <1>4, DecksAssumption DEF Init, StartInv, CeilingInv, Emitting
  <1>7. BaseInv /\ LiveInv
    BY <1>4 DEF Init, BaseInv, LiveInv
  <1>8. NothingOverwritten /\ AlarmIsReal
    BY DecksAssumption DEF Init, NothingOverwritten, AlarmIsReal
  <1> QED BY <1>5, <1>6, <1>7, <1>8 DEF Inv, Running

(* The chapter is generated, or refused.                                     *)
LEMMA GenerateInv == Inv /\ Generate => Inv'
  <1> SUFFICES ASSUME Inv, Generate PROVE Inv'
    OBVIOUS
  <1>1. PICK sig \in Signatures :
          /\ takes' = Len(sig.params)
          /\ \/ step' = 1 /\ UNCHANGED fate
             \/ fate' = "refused" /\ UNCHANGED step
    BY DEF Generate
  <1>2. takes' \in Nat
    BY <1>1, DecksAssumption
  <1>3. step = 0 /\ fate = "running" /\ UNCHANGED <<lift, passes, subject, item, cursors, objects, spare>>
    BY DEF Generate
  <1>4. UNCHANGED <<deck, bivy, top, base, floor, used, room, kept, live>>
    BY <1>3 DEF cursors, objects
  <1>5. Plan' = Plan /\ skip' = skip /\ skip \in {0, 1} /\ Len(Plan) \in Nat /\ Len(Plan) >= 1
    BY <1>3, PlanStays, PlanIs DEF Inv, Typed, skip
  <1>6. step' \in 0 .. Len(Plan)' /\ step' \in {0, 1}
    BY <1>1, <1>3, <1>5
  <1>7. Typed'
    <2>1. fate' \in {"running", "refused", "trapped", "done"}
      BY <1>1, <1>3
    <2> QED BY <1>2, <1>3, <1>4, <1>6, <2>1 DEF Inv, Typed
  <1>8. NothingOverwritten' /\ AlarmIsReal'
    BY <1>3, NoObject
  <1>9. Running'
    <2>1. StartInv'
      BY <1>3, <1>4, <1>6 DEF Inv, Running, StartInv
    <2>2. CeilingInv'
      BY <1>3, <1>4, <1>5, <1>6 DEF Inv, Running, CeilingInv, Emitting
    <2>3. BaseInv' /\ LiveInv'
      BY <1>3, <1>4, <1>5, <1>6 DEF Inv, Running, StartInv, BaseInv, LiveInv
    <2> QED BY <2>1, <2>2, <2>3 DEF Running
  <1> QED BY <1>7, <1>8, <1>9 DEF Inv

(* The prologue, over a heap that is empty.                                  *)
LEMMA StartSubjectInv == Inv /\ StartSubject => Inv'
  <1> SUFFICES ASSUME Inv, StartSubject PROVE Inv'
    OBVIOUS
  <1>1. step = 1 /\ skip \in {0, 1} /\ fate = "running" /\ Plan[step].do = "prologue"
    BY Where DEF StartSubject, At, Inv
  <1>2. step' = 2 /\ step' \in 0 .. Len(Plan)' /\ item' = 0 /\ 0 \in 0 .. Defs /\ skip' = skip
    BY <1>1, Goes DEF StartSubject, unit
  <1>3. floor' = 0 /\ deck' = 0 /\ bivy' = Height["prologue"] /\ used' = 0
        /\ room' = Height["prologue"] /\ kept' = 0 /\ live' = {}
        /\ UNCHANGED <<lift, passes, takes, subject, top, base, objects, spare, fate>>
    BY <1>1, Heights DEF StartSubject, NextStep, Advanced, unit, objects, Inv, Running, StartInv,
                         Reservations
  <1>4. Height["prologue"] \in Nat
    BY Heights DEF Reservations
  <1>5. Typed'
    BY <1>2, <1>3, <1>4 DEF Inv, Typed
  <1>6. StartInv' /\ CeilingInv'
    BY <1>1, <1>2, <1>3, <1>4, DecksAssumption
       DEF Inv, Running, StartInv, CeilingInv, Limit
  <1>7. BaseInv' /\ LiveInv'
    BY <1>1, <1>2, <1>3 DEF BaseInv, LiveInv
  <1>8. NothingOverwritten' /\ AlarmIsReal'
    BY <1>3, NoObject
  <1> QED BY <1>5, <1>6, <1>7, <1>8 DEF Inv, Running

(* build: the deck takes what lies above everything allocated so far.        *)
LEMMA BuildInv == Inv /\ Build => Inv'
  <1> SUFFICES ASSUME Inv, Build PROVE Inv'
    OBVIOUS
  <1> DEFINE n == 13 + skip
             h == Height[Here]
  <1>1. /\ \/ step = 3 /\ Here = "keep"
           \/ step = 4 /\ Here = "check"
           \/ step = 7 /\ Here = "lower_keep"
           \/ step = 8 /\ Here = "lower"
           \/ step = n - 2 /\ Here = "resolve"
           \/ step = n /\ Here = "lift"
        /\ skip \in {0, 1} /\ fate = "running" /\ Plan[step].do = "build" /\ step # 0
    BY Where DEF Build, At, Inv, Here
  <1>2. step' = step + 1 /\ step' \in 0 .. Len(Plan)' /\ item' = 0 /\ 0 \in 0 .. Defs
        /\ skip' = skip
    BY <1>1, Goes DEF Build, unit
  <1>3. Here \in Reservations /\ h \in Nat \ {0}
    BY <1>1, Heights DEF Reservations
  <1>4. base' = [base EXCEPT ![Here] = bivy] /\ deck' = bivy /\ bivy' = bivy + h
        /\ top' = bivy + h /\ used' = 0 /\ room' = h /\ kept' = 0
        /\ UNCHANGED <<lift, passes, takes, subject, floor, live, lost, spilled, spare, fate>>
    BY DEF Build, NextStep, unit, objects
  <1> HIDE DEF h
  <1>5. bivy \in Nat /\ deck \in Nat /\ top \in Nat /\ base \in [Reservations -> Nat]
        /\ room \in Nat /\ used \in Nat
    BY DEF Inv, Typed
  <1>6. StartInv /\ CeilingInv /\ BaseInv /\ LiveInv
    BY <1>1 DEF Inv, Running
  <1>7. ~Emitting /\ step >= 2 /\ Height["prologue"] \in Nat
    BY <1>1, Heights DEF Emitting, Reservations
  <1>8. Limit' = bivy + h /\ Limit' = top'
    BY <1>3, <1>4, <1>5 DEF Limit
  <1>9. Typed'
    BY <1>2, <1>3, <1>4, <1>5 DEF Inv, Typed
  <1>10. StartInv'
    BY <1>1, <1>2, <1>4, <1>6 DEF StartInv
  <1>11. CeilingInv'
    BY <1>1, <1>2, <1>3, <1>4, <1>5, <1>6, <1>7, <1>8 DEF CeilingInv
  <1>12. base'[Here] = bivy /\ \A r \in Reservations \ {Here} : base'[r] = base[r]
    BY <1>3, <1>4, <1>5
  <1>13. /\ step = 4 => Here = "check" /\ "keep" \in Reservations \ {Here}
         /\ step = 8 => Here = "lower" /\ "lower_keep" \in Reservations \ {Here}
    BY <1>1 DEF Reservations
  <1>14. ASSUME NEW keep, \/ step = 4 /\ keep = "keep"
                          \/ step = 8 /\ keep = "lower_keep"
         PROVE  /\ base'[keep] = deck /\ deck + Height[keep] = bivy /\ Limit = bivy
                /\ Height[keep] \in Nat
    <2>1. keep \in Reservations \ {Here}
      BY <1>13, <1>14
    <2>2. base'[keep] = base[keep] /\ Height[keep] \in Nat
      BY <1>12, <2>1, Heights
    <2>3. base[keep] = deck /\ Limit = deck + Height[keep] /\ Limit = bivy
      BY <1>6, <1>14 DEF BaseInv
    <2> QED BY <2>2, <2>3
  <1>15. BaseInv'
    <2>1. base'[Here] + Height[Here] = top' /\ Limit' = deck' + Height[Here] /\ Limit' = bivy'
          /\ used' = 0 /\ kept' = 0 /\ base'[Here] = deck' /\ base'[Here] + used' = deck'
      BY <1>3, <1>4, <1>5, <1>8, <1>12 DEF h
    <2>2. CASE step = 4
      <3>1. Here = "check" /\ step' = 5
        BY <1>2, <1>13, <2>2
      <3>2. KeepBelow("keep", "check")'
        BY <1>4, <1>5, <1>12, <1>14, <2>1, <2>2, <3>1 DEF KeepBelow
      <3> QED BY <1>1, <1>2, <2>1, <3>1, <3>2 DEF BaseInv
    <2>3. CASE step = 8
      <3>1. Here = "lower" /\ step' = 9
        BY <1>2, <1>13, <2>3
      <3>2. KeepBelow("lower_keep", "lower")'
        BY <1>4, <1>5, <1>12, <1>14, <2>1, <2>3, <3>1 DEF KeepBelow
      <3>3. Limit' = base'["lower"] + Height["lower"] /\ base'["lower"] + used' = deck'
        BY <2>1, <3>1
      <3> QED BY <1>1, <1>2, <1>4, <3>1, <3>2, <3>3 DEF BaseInv
    <2>4. CASE step \notin {4, 8}
      <3>1. /\ step' = 4 => Here = "keep"
            /\ step' # 5
            /\ step' = 8 => Here = "lower_keep"
            /\ step' \notin 9 .. 10
            /\ step' = 12 + skip' => Here = "resolve"
            /\ step' = 14 + skip' => Here = "lift"
            /\ step' # 15 + skip' /\ step' # 16 + skip'
        BY <1>1, <1>2, <2>4
      <3> QED BY <1>1, <1>2, <2>1, <3>1 DEF BaseInv
    <2> QED BY <2>2, <2>3, <2>4
  <1>16. LiveInv'
    <2>1. ASSUME NEW c \in live \ spilled
          PROVE  c \in Nat /\ c < bivy /\ ~(deck <= c /\ c < Limit)
      BY <1>6, <1>7 DEF LiveInv, Inv, Typed
    <2>2. ASSUME NEW c \in live \ spilled
          PROVE  c < bivy' /\ c < deck' /\ ~(deck' <= c /\ c < Limit')
      BY <1>3, <1>4, <1>5, <2>1
    <2>3. ASSUME NEW c \in live \ spilled, step' = 5 PROVE ~InKeep("keep", c)'
      <3>1. step = 4
        BY <1>1, <1>2, <2>3
      <3> QED BY <1>4, <1>5, <1>14, <2>1, <3>1 DEF InKeep
    <2>4. ASSUME NEW c \in live \ spilled, step' \in 9 .. 10
          PROVE  c < base'["lower"] /\ ~InKeep("lower_keep", c)'
      <3>1. step = 8
        BY <1>1, <1>2, <2>4
      <3>2. base'["lower"] = bivy
        BY <1>12, <1>13, <3>1
      <3> QED BY <1>4, <1>5, <1>14, <2>1, <3>1, <3>2 DEF InKeep
    <2> QED BY <1>4, <2>2, <2>3, <2>4 DEF LiveInv
  <1>17. NothingOverwritten' /\ AlarmIsReal'
    BY <1>4, NoObject DEF objects
  <1> QED BY <1>9, <1>10, <1>11, <1>15, <1>16, <1>17 DEF Inv, Running

(* The lowering's scratch is the reservation just built: the deck is there.  *)
LEMMA DeckSetInv == Inv /\ DeckSet => Inv'
  <1> SUFFICES ASSUME Inv, DeckSet PROVE Inv'
    OBVIOUS
  <1>1. /\ step = 9 /\ Here = "lower" /\ skip \in {0, 1} /\ fate = "running"
        /\ Plan[step].do = "set"
    BY Where DEF DeckSet, At, Inv, Here
  <1>2. step' = 10 /\ step' \in 0 .. Len(Plan)' /\ item' = 0 /\ 0 \in 0 .. Defs
        /\ skip' = skip
    BY <1>1, Goes DEF DeckSet, unit
  <1>3. Height["lower"] \in Nat \ {0} /\ base["lower"] \in Nat
    BY Heights DEF Inv, Typed, Reservations
  <1>4. deck' = base["lower"] /\ used' = 0 /\ room' = Height["lower"]
        /\ UNCHANGED <<lift, passes, takes, subject, bivy, top, base, floor, kept,
                       live, lost, spilled, spare, fate>>
    BY <1>1 DEF DeckSet, NextStep, unit, objects
  <1>5. bivy \in Nat /\ deck \in Nat /\ top \in Nat /\ room \in Nat /\ used \in Nat
    BY DEF Inv, Typed
  <1>6. StartInv /\ CeilingInv /\ BaseInv /\ LiveInv
    BY <1>1 DEF Inv, Running
  <1>7. Limit' = Limit /\ deck' <= deck /\ ~Emitting /\ ~Emitting'
    BY <1>1, <1>2, <1>3, <1>4, <1>5, <1>6 DEF BaseInv, KeepBelow, Limit, Emitting
  <1>8. Typed'
    BY <1>2, <1>3, <1>4, <1>5, <1>7 DEF Inv, Typed
  <1>9. StartInv' /\ CeilingInv'
    BY <1>1, <1>2, <1>4, <1>6, <1>7 DEF StartInv, CeilingInv
  <1>10. BaseInv'
    <2>1. KeepBelow("lower_keep", "lower")'
      BY <1>1, <1>3, <1>4, <1>6 DEF BaseInv, KeepBelow
    <2> QED BY <1>1, <1>2, <1>3, <1>4, <1>6, <1>7, <2>1 DEF BaseInv
  <1>11. LiveInv'
    <2>1. ASSUME NEW c \in live \ spilled
          PROVE  c \in Nat /\ c < bivy' /\ c < base["lower"] /\ ~InKeep("lower_keep", c)'
      BY <1>1, <1>4, <1>6 DEF LiveInv, Inv, Typed, InKeep
    <2>2. ASSUME NEW c \in live \ spilled PROVE ~(deck' <= c /\ c < Limit')
      BY <1>3, <1>4, <2>1
    <2> QED BY <1>2, <1>4, <1>7, <2>1, <2>2 DEF LiveInv
  <1>12. NothingOverwritten' /\ AlarmIsReal'
    BY <1>4, NoObject DEF objects
  <1> QED BY <1>8, <1>9, <1>10, <1>11, <1>12 DEF Inv, Running

(* The seal: the frontier comes down to a deck nothing live is above.        *)
LEMMA CompactInv == Inv /\ Compact => Inv'
  <1> SUFFICES ASSUME Inv, Compact PROVE Inv'
    OBVIOUS
  <1>1. /\ step = 14 + skip /\ ~lift /\ skip \in {0, 1} /\ fate = "running"
        /\ Plan[step].do = "compact" /\ step # 0
    BY Where DEF Compact, At, Inv
  <1>2. step' = step + 1 /\ step' \in 0 .. Len(Plan)' /\ item' = 0 /\ 0 \in 0 .. Defs
        /\ skip' = skip
    BY <1>1, Goes DEF Compact, unit
  <1>3. bivy' = deck
        /\ UNCHANGED <<lift, passes, takes, subject, deck, top, base, floor, used, room, kept,
                       live, lost, spilled, spare, fate>>
    BY DEF Compact, NextStep, unit, objects
  <1>4. bivy \in Nat /\ deck \in Nat /\ top \in Nat /\ room \in Nat /\ used \in Nat
        /\ Height["prologue"] \in Nat
    BY Heights DEF Inv, Typed, Reservations
  <1>5. StartInv /\ CeilingInv /\ BaseInv /\ LiveInv
    BY <1>1 DEF Inv, Running
  <1>6. Limit' = Limit /\ Emitting /\ Emitting'
    BY <1>1, <1>2, <1>3 DEF Limit, Emitting
  <1>7. Typed'
    BY <1>1, <1>2, <1>3, <1>4 DEF Inv, Typed
  <1>8. StartInv'
    BY <1>1, <1>2, <1>3, <1>5 DEF StartInv
  <1>9. CeilingInv'
    BY <1>1, <1>2, <1>3, <1>4, <1>5, <1>6 DEF CeilingInv
  <1>10. BaseInv'
    BY <1>1, <1>2, <1>3, <1>5 DEF BaseInv
  <1>11. LiveInv'
    BY <1>1, <1>2, <1>3, <1>5, <1>6 DEF LiveInv
  <1>12. NothingOverwritten' /\ AlarmIsReal'
    BY <1>3, NoObject DEF objects
  <1> QED BY <1>7, <1>8, <1>9, <1>10, <1>11, <1>12 DEF Inv, Running

(* emit-build: the deck is where it was, and so is the published top.        *)
LEMMA EmitBuildInv == Inv /\ EmitBuild => Inv'
  <1> SUFFICES ASSUME Inv, EmitBuild PROVE Inv'
    OBVIOUS
  <1>1. /\ step = 15 + skip /\ ~lift /\ skip \in {0, 1} /\ fate = "running"
        /\ Plan[step].do = "emit_build" /\ step # 0
    BY Where DEF EmitBuild, At, Inv
  <1>2. step' = step + 1 /\ step' \in 0 .. Len(Plan)' /\ item' = 0 /\ 0 \in 0 .. Defs
        /\ skip' = skip
    BY <1>1, Goes DEF EmitBuild, unit
  <1>3. deck' = bivy /\ bivy' = bivy + Height["emit"] /\ used' = 0
        /\ base' = [base EXCEPT !["emit"] = bivy]
        /\ UNCHANGED <<lift, passes, takes, subject, top, floor, room, kept,
                       live, lost, spilled, spare, fate>>
    BY DEF EmitBuild, NextStep, unit, objects
  <1>4. bivy \in Nat /\ deck \in Nat /\ top \in Nat /\ room \in Nat /\ used \in Nat
        /\ Height["emit"] \in Nat /\ Height["prologue"] \in Nat
        /\ base \in [Reservations -> Nat] /\ "emit" \in Reservations
    BY Heights DEF Inv, Typed, Reservations
  <1>5. StartInv /\ CeilingInv /\ BaseInv /\ LiveInv
    BY <1>1 DEF Inv, Running
  <1>6. deck' = deck /\ Limit' = Limit /\ Emitting /\ Emitting' /\ bivy = deck /\ used = 0
    BY <1>1, <1>2, <1>3, <1>5 DEF BaseInv, Limit, Emitting
  <1>7. Typed'
    BY <1>2, <1>3, <1>4 DEF Inv, Typed
  <1>8. StartInv'
    BY <1>1, <1>2, <1>3, <1>5 DEF StartInv
  <1>9. CeilingInv'
    BY <1>1, <1>2, <1>3, <1>4, <1>5, <1>6 DEF CeilingInv
  <1>10. BaseInv'
    <2>1. bivy' = base'["emit"] + Height["emit"]
      BY <1>3, <1>4
    <2> QED BY <1>1, <1>2, <2>1 DEF BaseInv
  <1>11. LiveInv'
    <2>1. ASSUME NEW c \in live \ spilled PROVE c \in Nat /\ c < deck' /\ c < bivy'
      BY <1>3, <1>4, <1>5, <1>6 DEF LiveInv, Inv, Typed
    <2> QED BY <1>1, <1>2, <1>3, <1>6, <2>1 DEF LiveInv
  <1>12. NothingOverwritten' /\ AlarmIsReal'
    BY <1>3, NoObject DEF objects
  <1> QED BY <1>7, <1>8, <1>9, <1>10, <1>11, <1>12 DEF Inv, Running

(* A phase is through with its definitions, or stops before it is: what it   *)
(* has made stays.                                                           *)
LEMMA PhaseOver ==
  ASSUME Inv, At("phase"), NextStep, UNCHANGED <<unit, subject, cursors, objects, fate>>,
         spare' \in Int, spare' = spare \/ spare' < MaxSize
  PROVE  Inv'
  <1> DEFINE n == 13 + skip
  <1>1. /\ step \in {2, 5, 6, 10} \cup {n - 1, n + 1, n + 3} \/ (step = 11 /\ skip = 1)
        /\ step = n + 1 => lift
        /\ step = n + 3 => ~lift
        /\ skip \in {0, 1} /\ fate = "running" /\ Plan[step].do = "phase" /\ step # 0
    BY Where DEF At, Inv
  <1>2. step' = step + 1 /\ step' \in 0 .. Len(Plan)' /\ item' = 0 /\ 0 \in 0 .. Defs
        /\ skip' = skip
    BY <1>1, Goes DEF unit
  <1>3. UNCHANGED <<lift, passes, takes, subject, deck, bivy, top, base, floor, used, room,
                    kept, live, lost, spilled, fate>>
    BY DEF NextStep, unit, cursors, objects
  <1>4. bivy \in Nat /\ deck \in Nat /\ top \in Nat /\ room \in Nat /\ used \in Nat
    BY DEF Inv, Typed
  <1>5. StartInv /\ CeilingInv /\ BaseInv /\ LiveInv
    BY <1>1 DEF Inv, Running
  <1>6. Limit' = Limit /\ (Emitting' <=> Emitting)
    BY <1>1, <1>2, <1>3 DEF Limit, Emitting
  <1>7. Typed'
    BY <1>1, <1>2, <1>3, <1>4 DEF Inv, Typed
  <1>8. StartInv'
    BY <1>1, <1>2, <1>3, <1>5 DEF StartInv
  <1>9. CeilingInv'
    BY <1>1, <1>2, <1>3, <1>5, <1>6 DEF CeilingInv
  <1>10. BaseInv'
    <2>1. /\ step' # 4 /\ step' # 5 /\ step' # 8 /\ step' \notin 9 .. 10
          /\ step' # 12 + skip /\ step' # 14 + skip
      BY <1>1, <1>2
    <2>2. step' = 15 + skip \/ step' = 16 + skip => lift'
      BY <1>1, <1>2, <1>3
    <2>3. step' \in 14 + skip .. 15 + skip => lift'
      BY <1>1, <1>2, <2>1, <2>2
    <2> QED BY <1>2, <2>1, <2>2, <2>3 DEF BaseInv
  <1>11. LiveInv'
    BY <1>1, <1>2, <1>3, <1>5, <1>6 DEF LiveInv
  <1>12. NothingOverwritten'
    BY <1>3 DEF Inv, NothingOverwritten
  <1>13. AlarmIsReal'
    BY DEF Inv, AlarmIsReal
  <1> QED BY <1>7, <1>8, <1>9, <1>10, <1>11, <1>12, <1>13 DEF Inv, Running

(* The arena goes back, and nothing of this subject is read any more.        *)
LEMMA ReleaseInv == Inv /\ Release => Inv'
  <1> SUFFICES ASSUME Inv, Release PROVE Inv'
    OBVIOUS
  <1>1. /\ step = 17 + skip /\ skip \in {0, 1} /\ fate = "running"
        /\ StartInv /\ CeilingInv /\ step \in 1 .. Len(Plan)
    BY Where DEF Release, At, Inv, Running, Typed
  <1>2. Plan' = Plan /\ skip' = skip /\ Len(Plan) \in Nat /\ Len(Plan) >= 1
    BY PlanStays, PlanIs DEF Release, unit, Inv, Typed, skip
  <1>3. bivy' = 0 /\ live' = {} /\ lost' = {} /\ spilled' = {} /\ subject' = subject + 1
        /\ UNCHANGED <<lift, passes, takes, deck, top, base, floor, used, room, kept, spare>>
    BY <1>1 DEF Release, Released, unit, StartInv
  <1>4. \/ subject' = Subjects /\ fate' = "done" /\ UNCHANGED <<step, item>>
        \/ subject' # Subjects /\ step' = 1 /\ item' = 0 /\ UNCHANGED fate
    BY DEF Release
  <1>5. subject' \in 0 .. Subjects /\ (subject' # Subjects => subject' < Subjects)
    BY <1>1, <1>3, DecksAssumption DEF Inv, Typed, StartInv
  <1>6. step' \in 0 .. Len(Plan)' /\ item' \in 0 .. Defs /\ fate' \in {"running", "done"}
    BY <1>1, <1>2, <1>4, DecksAssumption DEF Inv, Typed
  <1>7. Typed'
    <2>1. used' <= room'
      BY <1>1, <1>3 DEF Inv, Typed
    <2> QED BY <1>3, <1>5, <1>6, <2>1 DEF Inv, Typed
  <1>8. ASSUME fate' = "running" PROVE StartInv' /\ CeilingInv' /\ BaseInv' /\ LiveInv'
    <2>1. step' = 1 /\ subject' < Subjects
      BY <1>4, <1>5, <1>8
    <2>2. StartInv' /\ CeilingInv'
      BY <1>1, <1>3, <2>1 DEF StartInv, CeilingInv
    <2>3. BaseInv' /\ LiveInv'
      BY <1>1, <1>2, <1>3, <2>1 DEF BaseInv, LiveInv
    <2> QED BY <2>2, <2>3
  <1>9. NothingOverwritten' /\ AlarmIsReal'
    BY <1>3, NoObject
  <1> QED BY <1>7, <1>8, <1>9 DEF Inv, Running
-----------------------------------------------------------------------------
(* An object apart from all that is live, or beyond an end that is not       *)
(* watched.                                                                  *)
LEMMA MadeApart ==
  ASSUME NothingOverwritten, NEW obj, NEW work, Made(obj, work), spilled \subseteq spilled',
         \A c \in live \ spilled : c \in obj \cup work => c \in spilled',
         \A c \in obj : c \in work => c \in spilled'
  PROVE  NothingOverwritten'
  BY DEF NothingOverwritten, Made

(* The steps at which a phase of the plan is.                                *)
LEMMA Phases ==
  ASSUME Inv, At("phase")
  PROVE  /\ skip \in {0, 1} /\ step \in Nat /\ step >= 2
         /\ step \notin 3 .. 4 /\ step \notin 8 .. 9 /\ step # 15 + skip
         /\ step = 14 + skip => lift
         /\ (step = 10 <=> Here = "lower") /\ (step = 2 <=> Here = "front")
         /\ (step = 5 <=> Here = "check") /\ (step = 12 + skip <=> Here = "resolve")
         /\ (step = 14 + skip <=> Here = "lift") /\ (Emitting <=> Here = "emit")
         /\ Emitting => step = 16 + skip /\ ~lift
         /\ StartInv /\ CeilingInv /\ BaseInv /\ LiveInv
  <1>1. /\ fate = "running" /\ step # 0 /\ Plan[step].do = "phase" /\ Here = Plan[step].of
    BY DEF At, Here
  <1>2. /\ \/ step = 2 /\ Here = "front"
           \/ step = 5 /\ Here = "check"
           \/ step = 6 /\ Here = "tables"
           \/ step = 10 /\ Here = "lower"
           \/ step = 11 /\ skip = 1 /\ Here = "passes"
           \/ step = 12 + skip /\ Here = "resolve"
           \/ step = 14 + skip /\ lift /\ Here = "lift"
           \/ step = 16 + skip /\ ~lift /\ Here = "emit"
        /\ skip \in {0, 1}
    BY <1>1, Where DEF Inv
  <1>3. StartInv /\ CeilingInv /\ BaseInv /\ LiveInv
    BY <1>1 DEF Inv, Running
  <1> QED BY <1>2, <1>3 DEF Emitting

(* A trap leaves everything as it is, and the unit with it.                  *)
LEMMA TrapInv ==
  ASSUME Inv, Trap, room - used < MaxSize PROVE Inv'
  <1>1. fate' = "trapped" /\ spare' = room - used
        /\ UNCHANGED <<lift, passes, takes, subject, step, item, deck, bivy, top, base, floor,
                       used, room, kept, live, lost, spilled>>
    BY DEF Trap, unit, cursors, objects
  <1>2. Plan' = Plan
    BY <1>1, PlanStays
  <1>3. Typed'
    BY <1>1, <1>2 DEF Inv, Typed
  <1>4. AlarmIsReal'
    BY <1>1 DEF AlarmIsReal
  <1>5. NothingOverwritten'
    BY <1>1 DEF Inv, NothingOverwritten
  <1> QED BY <1>1, <1>3, <1>4, <1>5 DEF Inv, Running

(* From the first build on a published top is the end of the reservation, so *)
(* a spent guard means a spent reservation; a top an earlier subject left is *)
(* beyond the prologue's.                                                    *)
LEMMA SpentIsReal ==
  ASSUME Inv, At("phase"), NEW size \in 1 .. MaxSize, Spent(size)
  PROVE  room - used < MaxSize
  <1>1. CeilingInv /\ (step = 2 \/ step >= 4)
    BY Phases
  <1>2. deck \in Nat /\ top \in Nat /\ room \in Nat /\ used \in Nat
        /\ MaxSize \in Nat /\ size \in Nat /\ size <= MaxSize /\ Height["prologue"] \in Nat
    BY DecksAssumption, Heights DEF Inv, Typed, Reservations
  <1>3. CASE step = 2
    BY <1>1, <1>2, <1>3 DEF Spent, CeilingInv
  <1>4. CASE step >= 4
    BY <1>1, <1>2, <1>4 DEF Spent, CeilingInv, Limit
  <1> QED BY <1>1, <1>3, <1>4

(* What is put on a deck behind the first build fits the reservation.        *)
LEMMA Fits ==
  ASSUME Inv, At("phase"), step # 2, NEW size \in 1 .. MaxSize, ~Spent(size)
  PROVE  used + size <= room
  <1>1. CeilingInv /\ step >= 4
    BY Phases
  <1>2. deck \in Nat /\ top \in Nat /\ room \in Nat /\ used \in Nat /\ size \in Nat
        /\ Height["prologue"] \in Nat \ {0}
    BY DecksAssumption, Heights DEF Inv, Typed, Reservations
  <1>3. top = deck + (room - used) /\ top # 0
    BY <1>1, <1>2 DEF CeilingInv, Limit
  <1> QED BY <1>2, <1>3 DEF Spent

(* An object on the deck, and bivy scratch.                                  *)
LEMMA OnDeckInv ==
  ASSUME Inv, At("phase"), item < Defs, Here # "lower", NEW size \in 1 .. MaxSize,
         NEW work, OnDeck(size, work), work \in {{}, Object(bivy, size)}
  PROVE  Inv'
  <1> DEFINE obj == Object(deck, size)
  <1>1. /\ skip \in {0, 1} /\ step \in Nat /\ step >= 2
        /\ step \notin 8 .. 10 /\ step # 15 + skip /\ step \notin 3 .. 4
        /\ step = 14 + skip => lift
        /\ StartInv /\ CeilingInv /\ BaseInv /\ LiveInv
    BY Phases
  <1>2. /\ deck' = deck + size /\ used' = used + size /\ item' = item + 1
        /\ live' = live \cup obj /\ Made(obj, work) /\ ~Spent(size)
        /\ spilled' = spilled \cup Beyond(obj)
        /\ UNCHANGED <<lift, passes, takes, subject, step, bivy, top, base, floor, room, kept,
                       spare, fate>>
    BY DEF OnDeck, Made, unit
  <1>3. Plan' = Plan /\ skip' = skip
    BY <1>2, PlanStays
  <1>4. bivy \in Nat /\ deck \in Nat /\ top \in Nat /\ room \in Nat /\ used \in Nat
        /\ item \in Nat /\ size \in Nat /\ size > 0 /\ item' \in 0 .. Defs
        /\ Height["prologue"] \in Nat
    BY <1>2, DecksAssumption, Heights DEF Inv, Typed, Reservations
  <1>5. step # 2 => used + size <= room
    BY <1>2, Fits
  <1>6. Limit' = Limit /\ Limit \in Int /\ (step # 2 => deck + size <= Limit)
    BY <1>2, <1>4, <1>5 DEF Limit
  <1>7. (Emitting' <=> Emitting) /\ (~Emitting => Limit <= bivy)
    BY <1>1, <1>2, <1>3 DEF Emitting, CeilingInv
  <1>8. \A c : c \in obj <=> c \in Nat /\ deck <= c /\ c < deck + size
    BY <1>4, ObjectCells
  <1>9. \A c \in work : c \in Nat /\ bivy <= c
    BY <1>4, ObjectCells
  <1> HIDE DEF obj
  <1>10. \A c \in live \ spilled :
            /\ c \in Nat /\ c < bivy
            /\ Emitting => c < deck
            /\ ~Emitting => ~(deck <= c /\ c < Limit)
    BY <1>1 DEF LiveInv, Inv, Typed
  <1>11. \A c \in obj : c \in spilled' \/ (c < bivy /\ (~Emitting => c < Limit))
    <2> TAKE c \in obj
    <2>1. c \in Nat /\ c < deck + size
      BY <1>8
    <2>2. CASE step = 2
      <3>1. Here = "front" /\ ~Emitting /\ floor = 0
        BY <1>1, <2>2, Phases DEF StartInv, Emitting
      <3>2. Limit = Height["prologue"] /\ Limit <= bivy
        BY <1>1, <1>4, <1>7, <2>2, <3>1 DEF CeilingInv, Limit
      <3>3. c >= Height["prologue"] => c \in spilled'
        BY <1>2, <1>4, <3>1 DEF Beyond, Unwatched, End
      <3> QED BY <1>4, <2>1, <3>2, <3>3
    <2>3. CASE step # 2 /\ Emitting
      <3>1. Here = "emit" /\ bivy = base["emit"] + Height["emit"]
        BY <1>1, <2>3, Phases DEF BaseInv
      <3>2. c >= bivy => c \in spilled'
        BY <1>2, <3>1 DEF Beyond, Unwatched, End
      <3> QED BY <1>4, <2>1, <2>3, <3>2
    <2>4. CASE step # 2 /\ ~Emitting
      BY <1>4, <1>6, <1>7, <2>1, <2>4
    <2> QED BY <2>2, <2>3, <2>4
  <1>12. Typed'
    <2>1. live' \subseteq Nat
      BY <1>2, <1>8 DEF Inv, Typed
    <2>2. used' \in Nat /\ deck' \in Nat /\ (step' \notin 2 .. 3 => used' <= room')
      BY <1>2, <1>4, <1>5
    <2> QED BY <1>2, <1>3, <1>4, <2>1, <2>2 DEF Inv, Typed
  <1>13. NothingOverwritten'
    <2>1. \A c \in live \ spilled : c \in obj => c \in spilled'
      BY <1>4, <1>6, <1>8, <1>10, <1>11
    <2>2. \A c \in live \ spilled : c \notin work
      BY <1>4, <1>9, <1>10
    <2>3. \A c \in obj : c \in work => c \in spilled'
      BY <1>4, <1>8, <1>9, <1>11
    <2>4. NothingOverwritten /\ spilled \subseteq spilled'
      BY <1>2 DEF Inv
    <2> QED BY <1>2, <2>1, <2>2, <2>3, <2>4, MadeApart
  <1>14. StartInv'
    BY <1>1, <1>2 DEF StartInv
  <1>15. CeilingInv'
    BY <1>1, <1>2, <1>4, <1>6, <1>7 DEF CeilingInv
  <1>16. BaseInv'
    <2>1. KeepBelow("keep", "check") => KeepBelow("keep", "check")'
      <3>1. base["check"] \in Nat
        BY DEF Inv, Typed, Reservations
      <3> QED BY <1>2, <1>4, <3>1 DEF KeepBelow
    <2> QED BY <1>1, <1>2, <1>3, <2>1 DEF BaseInv
  <1>17. LiveInv'
    <2>1. \A c \in live' \ spilled' :
            /\ c < bivy
            /\ Emitting => c < deck'
            /\ ~Emitting => ~(deck' <= c /\ c < Limit)
      BY <1>2, <1>4, <1>6, <1>8, <1>10, <1>11
    <2>2. ASSUME step = 5, NEW c \in live' \ spilled' PROVE ~InKeep("keep", c)'
      <3>1. InKeep("keep", c)' <=> InKeep("keep", c)
        BY <1>2 DEF InKeep
      <3>2. CASE c \in live \ spilled
        BY <1>1, <2>2, <3>1, <3>2 DEF LiveInv
      <3>3. CASE c \in obj
        <4>1. base["keep"] + Height["keep"] = base["check"] /\ base["check"] <= deck
              /\ base["check"] \in Nat
          BY <1>1, <2>2 DEF BaseInv, KeepBelow, Inv, Typed, Reservations
        <4>2. c \in Nat /\ deck <= c
          BY <1>8, <3>3
        <4> QED BY <1>4, <3>1, <4>1, <4>2 DEF InKeep
      <3> QED BY <1>2, <2>2, <3>2, <3>3
    <2> QED BY <1>1, <1>2, <1>6, <1>7, <2>1, <2>2 DEF LiveInv
  <1>18. AlarmIsReal'
    BY <1>2 DEF Inv, AlarmIsReal
  <1> QED BY <1>12, <1>13, <1>14, <1>15, <1>16, <1>17, <1>18 DEF Inv, Running

(* An object at the frontier.                                                *)
LEMMA OnBivyInv ==
  ASSUME Inv, At("phase"), item < Defs, Here \notin {"check", "lower", "emit"},
         NEW size \in 1 .. MaxSize, OnBivy(size, bivy)
  PROVE  Inv'
  <1> DEFINE obj == Object(bivy, size)
  <1>1. /\ skip \in {0, 1} /\ step \in Nat /\ step >= 2
        /\ step \notin 3 .. 5 /\ step \notin 8 .. 10 /\ step # 15 + skip
        /\ step = 14 + skip => lift
        /\ ~Emitting
        /\ StartInv /\ CeilingInv /\ BaseInv /\ LiveInv
    BY Phases
  <1>2. /\ bivy' = bivy + size /\ item' = item + 1
        /\ live' = live \cup obj /\ Made(obj, {}) /\ spilled' = spilled
        /\ UNCHANGED <<lift, passes, takes, subject, step, deck, top, base, floor, used, room, kept,
                       spare, fate>>
    BY DEF OnBivy, Made, unit
  <1>3. Plan' = Plan /\ skip' = skip
    BY <1>2, PlanStays
  <1>4. bivy \in Nat /\ deck \in Nat /\ top \in Nat /\ room \in Nat /\ used \in Nat
        /\ item \in Nat /\ size \in Nat /\ size > 0 /\ item' \in 0 .. Defs
        /\ Height["prologue"] \in Nat
    BY <1>2, DecksAssumption, Heights DEF Inv, Typed, Reservations
  <1>5. Limit' = Limit /\ ~Emitting' /\ Limit <= bivy /\ Limit \in Int
    BY <1>1, <1>2, <1>3, <1>4 DEF Limit, Emitting, CeilingInv
  <1>6. \A c : c \in obj <=> c \in Nat /\ bivy <= c /\ c < bivy + size
    BY <1>4, ObjectCells
  <1> HIDE DEF obj
  <1>7. \A c \in live \ spilled : c \in Nat /\ c < bivy /\ ~(deck <= c /\ c < Limit)
    BY <1>1 DEF LiveInv, Inv, Typed
  <1>8. Typed'
    <2>1. live' \subseteq Nat
      BY <1>2, <1>6 DEF Inv, Typed
    <2>2. bivy' \in Nat
      BY <1>2, <1>4
    <2> QED BY <1>2, <1>3, <1>4, <2>1, <2>2 DEF Inv, Typed
  <1>9. NothingOverwritten'
    <2>1. \A c \in live \ spilled : c \notin obj
      BY <1>4, <1>6, <1>7
    <2> QED BY <1>2, <2>1, MadeApart DEF Inv
  <1>10. StartInv'
    BY <1>1, <1>2 DEF StartInv
  <1>11. CeilingInv'
    BY <1>1, <1>2, <1>4, <1>5 DEF CeilingInv
  <1>12. BaseInv'
    <2>1. step = 16 + skip => lift
      BY <1>1 DEF Emitting
    <2> QED BY <1>1, <1>2, <1>3, <2>1 DEF BaseInv
  <1>13. LiveInv'
    <2>1. \A c \in live' \ spilled' : c < bivy' /\ ~(deck <= c /\ c < Limit)
      BY <1>2, <1>4, <1>5, <1>6, <1>7
    <2> QED BY <1>1, <1>2, <1>5, <2>1 DEF LiveInv
  <1>14. AlarmIsReal'
    BY <1>2 DEF Inv, AlarmIsReal
  <1> QED BY <1>8, <1>9, <1>10, <1>11, <1>12, <1>13, <1>14 DEF Inv, Running

(* Front, tables and passes: the frontier, and diagnostics on the deck.      *)
LEMMA UnwrappedInv ==
  ASSUME Inv, NEW size \in 1 .. MaxSize, Unwrapped(size) PROVE Inv'
  <1>1. At("phase") /\ item < Defs /\ Here \in {"front", "tables", "passes"}
    BY DEF Unwrapped, InPhase
  <1>2. CASE OnBivy(size, bivy)
    BY <1>1, <1>2, OnBivyInv
  <1>3. CASE OnDeck(size, {})
    BY <1>1, <1>3, OnDeckInv
  <1>4. CASE Spent(size) /\ Trap
    BY <1>1, <1>4, SpentIsReal, TrapInv
  <1> QED BY <1>2, <1>3, <1>4 DEF Unwrapped

(* A walk is cut short for want of room.                                     *)
LEMMA CutShortInv ==
  ASSUME Inv, At("phase"), NEW left \in Int, left < MaxSize, CutShort(left) PROVE Inv'
  <1>1. spare' = left
    BY DEF CutShort
  <1> QED BY <1>1, PhaseOver DEF CutShort

(* A walk that measures itself against the reservation it is in.             *)
LEMMA CutInItsOwn ==
  ASSUME Inv, At("phase"), Here \in {"check", "lower", "resolve", "lift"}
  PROVE  base[Here] + Height[Here] = Limit
  <1>1. /\ step >= 4 /\ skip \in {0, 1} /\ CeilingInv /\ BaseInv
        /\ (step = 10 <=> Here = "lower") /\ (step = 5 <=> Here = "check")
        /\ (step = 12 + skip <=> Here = "resolve") /\ (step = 14 + skip <=> Here = "lift")
    BY Phases
  <1>2. top = Limit
    BY <1>1 DEF CeilingInv
  <1>3. CASE Here = "lower"
    BY <1>1, <1>3 DEF BaseInv
  <1>4. CASE Here # "lower"
    BY <1>1, <1>2, <1>4 DEF BaseInv
  <1> QED BY <1>3, <1>4

(* It is cut short if that is used up, and else there is room.               *)
LEMMA ShortIsReal ==
  ASSUME Inv, At("phase"), Here \in {"check", "lower", "resolve", "lift"},
         NEW size \in 1 .. MaxSize
  PROVE  /\ room - used \in Int
         /\ Short(Here, deck, size) => room - used < MaxSize
         /\ ~Short(Here, deck, size) => deck + size <= Limit /\ used + size <= room
  <1>1. base[Here] + Height[Here] = deck + (room - used)
    BY CutInItsOwn DEF Limit
  <1>2. room \in Nat /\ used \in Nat /\ deck \in Nat /\ size \in Nat /\ size <= MaxSize
        /\ MaxSize \in Nat
    BY DecksAssumption DEF Inv, Typed
  <1> QED BY <1>1, <1>2 DEF Short, Limit

(* An object copied into the keep, which it fits.                            *)
LEMMA CopiedInv ==
  ASSUME Inv, At("phase"), item < Defs, NEW size \in 1 .. MaxSize, NEW keep, NEW work,
         \/ /\ Here = "check" /\ keep = "keep" /\ work = Object(bivy, size)
            /\ deck' = deck /\ used' = used
         \/ /\ Here = "lower" /\ keep = "lower_keep" /\ work = {}
            /\ deck' = deck + size /\ used' = used + size,
         ~Short(Here, deck, size), ~Full(keep, size), Copied(keep, size, work)
  PROVE  Inv'
  <1>1. /\ skip \in {0, 1} /\ ~Emitting /\ StartInv /\ CeilingInv /\ BaseInv /\ LiveInv
        /\ \/ step = 5 /\ keep = "keep" /\ Here = "check"
           \/ step = 10 /\ keep = "lower_keep" /\ Here = "lower"
    BY Phases
  <1>2. KeepBelow(keep, Here)
    BY <1>1 DEF BaseInv
  <1>3. PICK k \in Nat : k = base[keep] + kept
    <2>1. keep \in Reservations
      BY <1>1 DEF Reservations
    <2> QED BY <2>1 DEF Inv, Typed
  <1>4. PICK b \in Nat : b = base[Here]
    <2>1. Here \in Reservations
      BY <1>1 DEF Reservations
    <2> QED BY <2>1 DEF Inv, Typed
  <1> DEFINE obj == Object(k, size)
             made == Object(deck, size) \cup work
  <1>5. /\ live' = live \cup obj /\ item' = item + 1 /\ kept' = kept + size
        /\ Made(obj, made) /\ spilled' = spilled
        /\ UNCHANGED <<lift, passes, takes, subject, step, bivy, top, base, floor,
                       room, spare, fate>>
    BY <1>3 DEF Copied, Made, unit
  <1>6. bivy \in Nat /\ deck \in Nat /\ room \in Nat /\ used \in Nat /\ kept \in Nat
        /\ item \in Nat /\ size \in Nat /\ size > 0 /\ item' \in 0 .. Defs
        /\ base[keep] \in Nat /\ Height[keep] \in Nat
    <2>1. keep \in Reservations
      BY <1>1 DEF Reservations
    <2> QED BY <1>5, <2>1, DecksAssumption, Heights DEF Inv, Typed
  <1>7. deck + size <= Limit /\ used + size <= room
    BY <1>1, ShortIsReal
  <1>8. k + size <= b /\ b <= deck /\ kept + size <= Height[keep]
        /\ b = base[keep] + Height[keep] /\ k + size = base[keep] + kept'
    BY <1>2, <1>3, <1>4, <1>5, <1>6 DEF KeepBelow, Full
  <1>9. Limit \in Int /\ Limit' = Limit + (deck' - deck) - (used' - used)
    BY <1>5, <1>6 DEF Limit
  <1>10. /\ Limit' = Limit /\ Limit <= bivy /\ deck' \in Nat /\ used' \in Nat
         /\ deck <= deck' /\ deck' <= deck + size /\ used' <= room
    BY <1>1, <1>6, <1>7, <1>9 DEF CeilingInv
  <1>11. Plan' = Plan /\ skip' = skip /\ ~Emitting'
    BY <1>1, <1>5, PlanStays DEF Emitting
  <1>12. \A c : c \in obj <=> c \in Nat /\ k <= c /\ c < k + size
    BY ObjectCells
  <1>13. \A c \in made : c \in Nat /\ deck <= c /\ (c < Limit \/ bivy <= c)
    <2>1. \A c \in Object(deck, size) : c \in Nat /\ deck <= c /\ c < deck + size
      BY <1>6, ObjectCells
    <2>2. \A c \in work : c \in Nat /\ bivy <= c
      <3>1. \A c \in Object(bivy, size) : c \in Nat /\ bivy <= c
        BY <1>6, ObjectCells
      <3>2. work = {} \/ work = Object(bivy, size)
        OBVIOUS
      <3> QED BY <3>1, <3>2, Zenon
    <2>3. deck <= Limit
      BY <1>6, <1>7, <1>9
    <2>4. deck <= bivy
      BY <1>6, <1>9, <1>10, <2>3
    <2> SUFFICES ASSUME NEW c \in made
                 PROVE  c \in Nat /\ deck <= c /\ (c < Limit \/ bivy <= c)
      OBVIOUS
    <2>5. CASE c \in Object(deck, size)
      <3>1. c \in Nat /\ deck <= c /\ c < deck + size
        BY <2>1, <2>5
      <3> QED BY <1>6, <1>7, <1>9, <3>1
    <2>6. CASE c \in work
      <3>1. c \in Nat /\ bivy <= c
        BY <2>2, <2>6
      <3> QED BY <1>6, <2>4, <3>1
    <2> QED BY <2>5, <2>6
  <1> HIDE DEF obj, made
  <1>14. \A c \in live \ spilled :
            /\ c \in Nat /\ c < bivy
            /\ ~(deck <= c /\ c < Limit)
            /\ ~(k <= c /\ c < b)
            /\ step = 10 => c < b
    <2> SUFFICES ASSUME NEW c \in live \ spilled
                 PROVE  /\ c \in Nat /\ c < bivy
                        /\ ~(deck <= c /\ c < Limit)
                        /\ ~(k <= c /\ c < b)
                        /\ step = 10 => c < b
      OBVIOUS
    <2>1. /\ c \in Nat /\ c < bivy
          /\ ~(deck <= c /\ c < Limit)
      BY <1>1 DEF LiveInv, Inv, Typed
    <2>2. ~InKeep(keep, c) /\ (step = 10 => c < b)
      BY <1>1, <1>4 DEF LiveInv
    <2> QED BY <1>3, <1>8, <2>1, <2>2 DEF InKeep
  <1>15. Typed'
    <2>1. live' \subseteq Nat
      BY <1>5, <1>12 DEF Inv, Typed
    <2>2. kept' \in Nat
      BY <1>5, <1>6
    <2> QED BY <1>5, <1>6, <1>10, <1>11, <2>1, <2>2 DEF Inv, Typed
  <1>16. NothingOverwritten'
    <2>1. \A c \in live \ spilled : c \notin obj
      BY <1>6, <1>8, <1>12, <1>14
    <2>2. \A c \in live \ spilled : c \notin made
      BY <1>6, <1>13, <1>14
    <2>3. \A c \in obj : c \notin made
      BY <1>6, <1>8, <1>12, <1>13
    <2>4. NothingOverwritten
      BY DEF Inv
    <2> QED BY <1>5, <2>1, <2>2, <2>3, <2>4, MadeApart
  <1>17. StartInv'
    BY <1>1, <1>5 DEF StartInv
  <1>18. CeilingInv'
    <2>1. step \in {5, 10} /\ UNCHANGED <<step, top, bivy, room>>
      BY <1>1, <1>5
    <2> QED BY <1>1, <1>10, <1>11, <2>1 DEF CeilingInv
  <1>19. BaseInv'
    <2>1. KeepBelow(keep, Here)'
      <3>1. Here' = Here
        BY <1>5, <1>11 DEF Here
      <3>2. base'[keep] = base[keep] /\ base'[Here] = b /\ kept' = kept + size
        BY <1>4, <1>5
      <3>3. base'[Here] <= deck'
        BY <1>6, <1>8, <1>10, <3>2
      <3> QED BY <1>8, <3>1, <3>2, <3>3 DEF KeepBelow
    <2>2. Here' = Here
      BY <1>5, <1>11 DEF Here
    <2>3. CASE step = 5
      BY <1>1, <1>5, <1>11, <2>1, <2>2, <2>3 DEF BaseInv
    <2>4. CASE step = 10
      <3>1. base'["lower"] + used' = deck' /\ Limit' = base'["lower"] + Height["lower"]
        BY <1>1, <1>4, <1>5, <1>6, <1>10, <2>4 DEF BaseInv
      <3>2. KeepBelow("lower_keep", "lower")'
        BY <1>1, <2>1, <2>2, <2>4
      <3> QED BY <1>1, <1>5, <1>11, <2>4, <3>1, <3>2 DEF BaseInv
    <2> QED BY <1>1, <2>3, <2>4
  <1>20. LiveInv'
    <2>1. \A c \in live' \ spilled' :
            /\ c < bivy
            /\ ~(deck' <= c /\ c < Limit)
            /\ ~(k + size <= c /\ c < b)
            /\ step = 10 => c < b
      <3> SUFFICES ASSUME NEW c \in live' \ spilled'
                   PROVE  /\ c < bivy
                          /\ ~(deck' <= c /\ c < Limit)
                          /\ ~(k + size <= c /\ c < b)
                          /\ step = 10 => c < b
        OBVIOUS
      <3>1. CASE c \in obj
        <4>1. c \in Nat /\ k <= c /\ c < k + size
          BY <1>12, <3>1
        <4>2. c < b /\ c < deck
          BY <1>6, <1>8, <4>1
        <4>3. c < bivy
          BY <1>1, <1>6, <1>7, <1>9, <1>10, <4>1, <4>2
        <4> QED BY <1>6, <1>10, <4>1, <4>2, <4>3
      <3>2. CASE c \in live \ spilled
        <4>1. /\ c \in Nat /\ c < bivy
              /\ ~(deck <= c /\ c < Limit)
              /\ ~(k <= c /\ c < b)
              /\ step = 10 => c < b
          BY <1>14, <3>2
        <4> QED BY <1>6, <1>9, <1>10, <4>1
      <3> QED BY <1>5, <3>1, <3>2
    <2>2. ASSUME NEW c \in live' \ spilled' PROVE ~InKeep(keep, c)'
      BY <1>5, <1>8, <2>1, <2>2 DEF InKeep
    <2> QED BY <1>1, <1>4, <1>5, <1>10, <1>11, <2>1, <2>2 DEF LiveInv
  <1>21. AlarmIsReal'
    BY <1>5 DEF Inv, AlarmIsReal
  <1> QED BY <1>15, <1>16, <1>17, <1>18, <1>19, <1>20, <1>21 DEF Inv, Running

(* check-chapter.                                                            *)
LEMMA CheckInv ==
  ASSUME Inv, NEW size \in 1 .. MaxSize, Check(size) PROVE Inv'
  <1>1. At("phase") /\ item < Defs /\ Here = "check"
    BY DEF Check, InPhase
  <1>2. CASE Short("check", deck, size) /\ CutShort(room - used)
    BY <1>1, <1>2, ShortIsReal, CutShortInv
  <1>3. CASE OnDeck(size, Object(bivy, size))
    BY <1>1, <1>3, OnDeckInv
  <1>4. CASE /\ ~Short("check", deck, size) /\ ~Full("keep", size)
             /\ Copied("keep", size, Object(bivy, size))
             /\ UNCHANGED <<deck, used>>
    BY <1>1, <1>4, CopiedInv
  <1> QED BY <1>2, <1>3, <1>4 DEF Check, Wrapped

(* lower-chapter.                                                            *)
LEMMA LowerInv ==
  ASSUME Inv, NEW size \in 1 .. MaxSize, Lower(size) PROVE Inv'
  <1>1. At("phase") /\ item < Defs /\ Here = "lower"
    BY DEF Lower, InPhase
  <1>2. CASE Short("lower", deck, size) /\ CutShort(room - used)
    BY <1>1, <1>2, ShortIsReal, CutShortInv
  <1>3. CASE Full("lower_keep", size) /\ CutShort(Height["lower_keep"] - kept)
    <2>1. Height["lower_keep"] \in Nat /\ kept \in Nat /\ MaxSize \in Nat
      BY DecksAssumption, Heights DEF Inv, Typed, Reservations
    <2>2. Height["lower_keep"] - kept \in Int /\ Height["lower_keep"] - kept < MaxSize
      BY <1>3, <2>1 DEF Full
    <2> QED BY <1>1, <1>3, <2>2, CutShortInv
  <1>4. CASE /\ ~Short("lower", deck, size) /\ ~Full("lower_keep", size)
             /\ Copied("lower_keep", size, {})
             /\ deck' = deck + size /\ used' = used + size
    BY <1>1, <1>4, CopiedInv
  <1> QED BY <1>2, <1>3, <1>4 DEF Lower

(* The scratch is started over: what was copied is below it.                 *)
LEMMA ScratchBackInv == Inv /\ ScratchBack => Inv'
  <1> SUFFICES ASSUME Inv, ScratchBack PROVE Inv'
    OBVIOUS
  <1>1. At("phase") /\ item < Defs /\ Here = "lower"
    BY DEF ScratchBack, InPhase
  <1>2. step = 10 /\ skip \in {0, 1} /\ ~Emitting /\ StartInv /\ CeilingInv /\ BaseInv /\ LiveInv
    BY <1>1, Phases
  <1>3. deck' = base["lower"] /\ used' = 0
        /\ UNCHANGED <<lift, passes, takes, subject, step, item, bivy, top, base, floor, room,
                       kept, live, lost, spilled, spare, fate>>
    BY DEF ScratchBack, unit, objects
  <1>4. bivy \in Nat /\ deck \in Nat /\ room \in Nat /\ used \in Nat /\ base["lower"] \in Nat
    BY DEF Inv, Typed, Reservations
  <1>5. base["lower"] + used = deck
    BY <1>2 DEF BaseInv
  <1>6. Limit' = Limit
    BY <1>3, <1>4, <1>5 DEF Limit
  <1>7. Plan' = Plan /\ skip' = skip /\ ~Emitting'
    BY <1>2, <1>3, PlanStays DEF Emitting
  <1>8. Typed'
    BY <1>3, <1>4, <1>7 DEF Inv, Typed
  <1>9. StartInv' /\ CeilingInv'
    BY <1>2, <1>3, <1>6, <1>7 DEF StartInv, CeilingInv
  <1>10. BaseInv'
    <2>1. KeepBelow("lower_keep", "lower")'
      BY <1>2, <1>3, <1>4 DEF BaseInv, KeepBelow
    <2> QED BY <1>2, <1>3, <1>4, <1>6, <1>7, <2>1 DEF BaseInv
  <1>11. LiveInv'
    <2>1. ASSUME NEW c \in live \ spilled
          PROVE  c \in Nat /\ c < bivy' /\ c < base["lower"] /\ ~InKeep("lower_keep", c)'
      BY <1>2, <1>3 DEF LiveInv, Inv, Typed, InKeep
    <2>2. ASSUME NEW c \in live \ spilled PROVE ~(deck' <= c /\ c < Limit')
      BY <1>3, <1>4, <2>1
    <2> QED BY <1>2, <1>3, <1>7, <2>1, <2>2 DEF LiveInv
  <1>12. NothingOverwritten' /\ AlarmIsReal'
    BY <1>3, NoObject DEF objects
  <1> QED BY <1>8, <1>9, <1>10, <1>11, <1>12 DEF Inv, Running

(* resolve and lift.                                                         *)
LEMMA WalkInv ==
  ASSUME Inv, NEW size \in 1 .. MaxSize, Walk(size) PROVE Inv'
  <1>1. At("phase") /\ item < Defs /\ Here \in {"resolve", "lift"}
    BY DEF Walk, InPhase
  <1>2. Wrapped(Here)
    BY <1>1 DEF Wrapped
  <1>3. CASE Short(Here, deck, size) /\ CutShort(room - used)
    BY <1>1, <1>3, ShortIsReal, CutShortInv
  <1>4. CASE OnDeck(size, {})
    BY <1>1, <1>4, OnDeckInv
  <1> QED BY <1>2, <1>3, <1>4 DEF Walk

(* The emitter.                                                              *)
LEMMA EmitInv ==
  ASSUME Inv, NEW size \in 1 .. MaxSize, Emit(size) PROVE Inv'
  <1>1. At("phase") /\ item < Defs /\ Here = "emit"
    BY DEF Emit, InPhase
  <1>2. CASE OnDeck(size, Object(bivy, size))
    BY <1>1, <1>2, OnDeckInv
  <1>3. CASE Spent(size) /\ Trap
    BY <1>1, <1>3, SpentIsReal, TrapInv
  <1> QED BY <1>2, <1>3 DEF Emit

(* Every step, and every stutter, keeps the invariant.                       *)
LEMMA NextInv == Inv /\ [Next]_vars => Inv'
  <1> SUFFICES ASSUME Inv, [Next]_vars PROVE Inv'
    OBVIOUS
  <1>1. ASSUME NEW size \in 1 .. MaxSize,
               Unwrapped(size) \/ Check(size) \/ Lower(size) \/ Walk(size) \/ Emit(size)
        PROVE  Inv'
    BY <1>1, UnwrappedInv, CheckInv, LowerInv, WalkInv, EmitInv
  <1>2. CASE PhaseEnds
    BY <1>2, PhaseOver DEF PhaseEnds, Inv, Typed
  <1>3. CASE HandOn
    <2>1. fate' = "done"
          /\ UNCHANGED <<lift, passes, takes, subject, step, item, deck, bivy, top, base, floor,
                         used, room, kept, live, lost, spilled, spare>>
      BY <1>3 DEF HandOn, unit, cursors, objects
    <2>2. Plan' = Plan
      BY <2>1, PlanStays
    <2>3. Typed'
      BY <2>1, <2>2 DEF Inv, Typed
    <2> QED BY <2>1, <2>3, NoObject DEF Inv, Running, objects
  <1>4. CASE UNCHANGED vars
    <2>1. UNCHANGED <<lift, passes, takes, subject, step, item, deck, bivy, top, base, floor,
                      used, room, kept, live, lost, spilled, spare, fate>>
      BY <1>4 DEF vars, unit, cursors, objects
    <2>2. Plan' = Plan /\ skip' = skip /\ (Emitting' <=> Emitting) /\ Limit' = Limit
      BY <2>1, PlanStays DEF Emitting, Limit
    <2>3. Typed'
      BY <2>1, <2>2 DEF Inv, Typed
    <2>4. Running'
      BY <2>1, <2>2 DEF Inv, Running, StartInv, CeilingInv, BaseInv, LiveInv, KeepBelow, InKeep
    <2> QED BY <2>1, <2>3, <2>4, NoObject DEF Inv, objects
  <1> QED BY <1>1, <1>2, <1>3, <1>4, GenerateInv, StartSubjectInv, BuildInv, DeckSetInv,
             CompactInv, EmitBuildInv, ScratchBackInv, ReleaseInv DEF Next, Over

(* So it holds of every unit, wherever it has come to.                       *)
THEOREM Generated == Spec => []Inv
  BY InitInv, NextInv, PTL DEF Spec

(* Every variable keeps to its range, the deck, but before the first build,   *)
(* to its reservation.                                                       *)
THEOREM TypeCorrect == Spec => []TypeOK
  <1>1. Inv => TypeOK
    BY DEF Inv, Typed, TypeOK
  <1> QED BY <1>1, Generated, PTL

(* For any heights, subjects and sizes: no phase allocates over what a later *)
(* one reads, but for the cells of a deck that ran past an end that no guard *)
(* watches: what the prologue's reservation or emission's could not hold.    *)
THEOREM NeverOverwritten == Spec => []NothingOverwritten
  <1>1. Inv => NothingOverwritten
    BY DEF Inv
  <1> QED BY <1>1, Generated, PTL

(* A trap or a walk cut short is owed to a reservation that is used up.      *)
THEOREM EveryAlarmReal == Spec => []AlarmIsReal
  <1>1. Inv => AlarmIsReal
    BY DEF Inv
  <1> QED BY <1>1, Generated, PTL

(* A unit that stopped has not stopped before a subject's prologue.          *)
LEMMA RunningAtStart ==
  Inv /\ (step = 1 => fate = "running") /\ [Next]_vars => (step = 1 => fate = "running")'
  <1> SUFFICES ASSUME Inv, step = 1 => fate = "running", [Next]_vars
               PROVE  (step = 1 => fate = "running")'
    OBVIOUS
  <1>1. step \in Nat
    BY PlanIs DEF Inv, Typed, skip
  <1>2. CASE UNCHANGED <<step, fate>>
    BY <1>2
  <1>3. CASE NextStep /\ step # 0
    BY <1>1, <1>3 DEF NextStep
  <1>4. CASE At("phase") /\ Trap
    BY <1>4, Phases DEF Trap
  <1>5. CASE HandOn \/ Release
    BY <1>5, Where DEF HandOn, Release, At, Inv
  <1>6. CASE Generate
    BY <1>6 DEF Generate
  <1>7. CASE StartSubject \/ Build \/ DeckSet \/ Compact \/ EmitBuild \/ PhaseEnds
    BY <1>3, <1>7 DEF StartSubject, Build, DeckSet, Compact, EmitBuild, PhaseEnds, At
  <1>8. ASSUME NEW size \in 1 .. MaxSize,
               Unwrapped(size) \/ Check(size) \/ Lower(size) \/ Walk(size) \/ Emit(size)
        PROVE  \/ UNCHANGED <<step, fate>>
               \/ NextStep /\ step # 0
               \/ At("phase") /\ Trap
    BY <1>8 DEF Unwrapped, Check, Lower, Walk, Emit, InPhase, At, OnDeck, OnBivy, Copied, CutShort
  <1>9. CASE ScratchBack
    BY <1>2, <1>9 DEF ScratchBack
  <1> QED BY <1>2, <1>3, <1>4, <1>5, <1>6, <1>7, <1>8, <1>9 DEF Next, Over, vars

(* Every subject starts on the heap the first one started on, nothing of an  *)
(* earlier one on it.                                                        *)
THEOREM HeapStartsAfresh == Spec => [](step = 1 => bivy = 0 /\ live = {})
  <1>1. Init => (step = 1 => fate = "running")
    BY DEF Init
  <1>2. Inv /\ (step = 1 => fate = "running") =>
          (step = 1 => bivy = 0 /\ live = {})
    BY DEF Inv, Running, StartInv
  <1> QED BY <1>1, <1>2, Generated, RunningAtStart, PTL DEF Spec
-----------------------------------------------------------------------------
(* Induction, over a set of numbers: one that has 0 and is closed upwards.   *)
LEMMA Upward ==
  ASSUME NEW S, 0 \in S, \A n \in Nat : n \in S => n + 1 \in S PROVE Nat \subseteq S
  <1> SUFFICES ASSUME NEW m \in Nat, m \notin S PROVE FALSE
    OBVIOUS
  <1> DEFINE Out == Nat \ S
  <1>1. PICK x \in Out : \A y \in Out : <<y, x>> \notin OpToRel(<, Nat)
    BY WFMin, NatLessThanWellFounded
  <1>2. \A y \in Out : ~(y < x)
    BY <1>1 DEF OpToRel
  <1>3. x # 0 /\ x - 1 \in Nat /\ x - 1 < x
    OBVIOUS
  <1>4. x - 1 \in S
    BY <1>2, <1>3
  <1> QED BY <1>3, <1>4

(* There is a function that joins the first n parameters for every n.        *)
LEMMA JoinExists ==
  ASSUME NEW parts, NEW N \in Nat
  PROVE  \E f : f = [n \in 0 .. N |-> IF n = 0 THEN <<>> ELSE f[n - 1] \o Item(parts, n)]
  <1> DEFINE Body(f, n) == IF n = 0 THEN <<>> ELSE f[n - 1] \o Item(parts, n)
             S == {k \in Nat : \E f : f = [n \in 0 .. k |-> Body(f, n)]}
  <1>1. 0 \in S
    <2> DEFINE f == [n \in 0 .. 0 |-> <<>>]
    <2>1. f = [n \in 0 .. 0 |-> Body(f, n)]
      OBVIOUS
    <2> QED BY <2>1
  <1>2. \A k \in Nat : k \in S => k + 1 \in S
    <2> SUFFICES ASSUME NEW k \in Nat, k \in S PROVE k + 1 \in S
      OBVIOUS
    <2>0. PICK f : f = [n \in 0 .. k |-> Body(f, n)]
      OBVIOUS
    <2>1. \A n \in 0 .. k : f[n] = Body(f, n)
      BY <2>0
    <2> DEFINE G == [n \in 0 .. k + 1 |-> IF n <= k THEN f[n] ELSE Body(f, n)]
    <2>2. PICK g : g = G
      OBVIOUS
    <2>3. \A n \in 0 .. k : g[n] = f[n]
      BY <2>2
    <2>4. \A n \in 0 .. k + 1 : Body(g, n) = Body(f, n)
      <3> TAKE n \in 0 .. k + 1
      <3>1. n # 0 => n - 1 \in 0 .. k
        OBVIOUS
      <3> QED BY <2>3, <3>1
    <2> HIDE DEF Body
    <2>5. g = [n \in 0 .. k + 1 |-> Body(g, n)]
      <3>1. \A n \in 0 .. k + 1 : (IF n <= k THEN f[n] ELSE Body(f, n)) = Body(g, n)
        BY <2>1, <2>4
      <3> QED BY <2>2, <3>1
    <2> QED BY <2>5
  <1> QED BY <1>1, <1>2, Upward

(* What Join computes, a parameter at a time.                                *)
LEMMA JoinIs ==
  ASSUME NEW parts, Len(parts) \in Nat
  PROVE  \E f : /\ Join(parts) = f[Len(parts)]
                /\ f[0] = <<>>
                /\ \A n \in 1 .. Len(parts) : f[n] = f[n - 1] \o Item(parts, n)
  <1> DEFINE N == Len(parts)
             f == CHOOSE u : u = [n \in 0 .. N |-> IF n = 0 THEN <<>> ELSE u[n - 1] \o Item(parts, n)]
  <1>1. PICK g : g = f
    OBVIOUS
  <1>2. g = [n \in 0 .. N |-> IF n = 0 THEN <<>> ELSE g[n - 1] \o Item(parts, n)]
    BY <1>1, JoinExists
  <1>3. Join(parts) = g[N]
    BY <1>1 DEF Join
  <1> HIDE DEF f
  <1>4. g[0] = <<>>
    BY <1>2
  <1>5. \A n \in 1 .. N : g[n] = g[n - 1] \o Item(parts, n)
    <2> TAKE n \in 1 .. N
    <2>1. n \in 0 .. N /\ n # 0
      OBVIOUS
    <2> QED BY <1>2, <2>1
  <1> QED BY <1>3, <1>4, <1>5

(* The members of S among the first n places.                                *)
Within(S, n) == {i \in 1 .. n : i \in S}

(* One place more holds at most one member more.                             *)
LEMMA OneMore ==
  ASSUME NEW S, NEW n \in Nat
  PROVE  /\ Cardinality(Within(S, n)) \in Nat
         /\ Cardinality(Within(S, 0)) = 0
         /\ Cardinality(Within(S, n + 1)) = Cardinality(Within(S, n)) + (IF n + 1 \in S THEN 1 ELSE 0)
  <1>1. IsFiniteSet(1 .. n)
    BY FS_Interval
  <1>2. Within(S, n) \in SUBSET (1 .. n) /\ n + 1 \notin Within(S, n)
    BY DEF Within
  <1>3. IsFiniteSet(Within(S, n))
    BY <1>1, <1>2, FS_Subset
  <1>4. Within(S, 0) = {}
    BY DEF Within
  <1>5. Within(S, n + 1) = IF n + 1 \in S THEN Within(S, n) \cup {n + 1} ELSE Within(S, n)
    <2>1. \A i : i \in 1 .. n + 1 <=> i \in 1 .. n \/ i = n + 1
      OBVIOUS
    <2>2. n + 1 \in S => Within(S, n + 1) = Within(S, n) \cup {n + 1}
      BY <2>1 DEF Within
    <2>3. n + 1 \notin S => Within(S, n + 1) = Within(S, n)
      BY <2>1 DEF Within
    <2> QED BY <2>2, <2>3
  <1>6. Cardinality(Within(S, n)) \in Nat
    BY <1>3, FS_CardinalityType
  <1>7. Cardinality(Within(S, n) \cup {n + 1}) = Cardinality(Within(S, n)) + 1
    BY <1>2, <1>3, FS_AddElement
  <1>8. Cardinality(Within(S, 0)) = 0
    BY <1>4, FS_EmptySet
  <1> QED BY <1>5, <1>6, <1>7, <1>8

(* If S continues behind m as T begins, the members add up.                  *)
LEMMA Tally ==
  ASSUME NEW S, NEW T, NEW m \in Nat, NEW k \in Nat, \A j \in 1 .. k : m + j \in S <=> j \in T
  PROVE  Cardinality(Within(S, m + k)) = Cardinality(Within(S, m)) + Cardinality(Within(T, k))
  <1> DEFINE Adds == {j \in Nat : j <= k =>
          Cardinality(Within(S, m + j)) = Cardinality(Within(S, m)) + Cardinality(Within(T, j))}
  <1>1. 0 \in Adds
    BY OneMore
  <1>2. \A j \in Nat : j \in Adds => j + 1 \in Adds
    <2> SUFFICES ASSUME NEW j \in Nat, j \in Adds, j + 1 <= k PROVE j + 1 \in Adds
      OBVIOUS
    <2>1. Cardinality(Within(S, m + j)) = Cardinality(Within(S, m)) + Cardinality(Within(T, j))
      OBVIOUS
    <2>2. m + j \in Nat /\ (m + j) + 1 = m + (j + 1)
      OBVIOUS
    <2>3. Cardinality(Within(S, m + (j + 1)))
            = Cardinality(Within(S, m + j)) + (IF m + (j + 1) \in S THEN 1 ELSE 0)
      BY <2>2, OneMore
    <2>4. Cardinality(Within(T, j + 1)) = Cardinality(Within(T, j)) + (IF j + 1 \in T THEN 1 ELSE 0)
      BY OneMore
    <2>5. m + (j + 1) \in S <=> j + 1 \in T
      OBVIOUS
    <2>6. Cardinality(Within(S, m)) \in Nat /\ Cardinality(Within(T, j)) \in Nat
      BY OneMore
    <2> QED BY <2>1, <2>3, <2>4, <2>5, <2>6
  <1>3. k \in Adds
    BY <1>1, <1>2, Upward
  <1> QED BY <1>3

(* Count counts the members of a set of places.                              *)
LEMMA CountIs ==
  ASSUME NEW s, NEW n \in Nat, NEW t
  PROVE  Count(s, n, t) = Cardinality(Within({i \in Nat : s[i] = t}, n)) /\ Count(s, n, t) \in Nat
  <1>1. {i \in 1 .. n : s[i] = t} = Within({i \in Nat : s[i] = t}, n)
    BY DEF Within
  <1> QED BY <1>1, OneMore DEF Count

(* A name of its own keeps the sequence axioms out of steps that need none.  *)
Word == Seq(Token)

(* The places of a sequence of tokens.                                       *)
LEMMA WordIs ==
  ASSUME NEW a \in Word PROVE Len(a) \in Nat /\ DOMAIN a = 1 .. Len(a)
  BY DEF Word

(* Two of them, one behind the other.                                        *)
LEMMA WordCat ==
  ASSUME NEW a \in Word, NEW b \in Word
  PROVE  /\ a \o b \in Word /\ Len(a \o b) = Len(a) + Len(b)
         /\ \A i \in 1 .. Len(a) : (a \o b)[i] = a[i]
         /\ \A j \in 1 .. Len(b) : (a \o b)[Len(a) + j] = b[j]
  BY DEF Word

(* And three.                                                                *)
LEMMA WordCats ==
  ASSUME NEW a \in Word, NEW b \in Word, NEW c \in Word
  PROVE  /\ (a \o b) \o c = a \o (b \o c) /\ <<>> \o a = a
  BY DEF Word

(* A token is counted in the one and then in the other.                      *)
LEMMA CountCat ==
  ASSUME NEW a \in Word, NEW b \in Word, NEW t
  PROVE  /\ \A i \in 0 .. Len(a) : Count(a \o b, i, t) = Count(a, i, t)
         /\ \A j \in 0 .. Len(b) :
              Count(a \o b, Len(a) + j, t) = Count(a, Len(a), t) + Count(b, j, t)
  <1> DEFINE s == a \o b
  <1>1. /\ \A i \in 1 .. Len(a) : s[i] = a[i]
        /\ \A j \in 1 .. Len(b) : s[Len(a) + j] = b[j]
        /\ Len(a) \in Nat /\ Len(b) \in Nat
    BY WordIs, WordCat
  <1> HIDE DEF s
  <1>2. \A i \in 0 .. Len(a) : Count(s, i, t) = Count(a, i, t)
    <2> TAKE i \in 0 .. Len(a)
    <2>1. \A x \in 1 .. i : s[x] = a[x]
      BY <1>1
    <2>2. {x \in 1 .. i : s[x] = t} = {x \in 1 .. i : a[x] = t}
      BY <2>1
    <2> QED BY <2>2 DEF Count
  <1>3. \A j \in 0 .. Len(b) : Count(s, Len(a) + j, t) = Count(a, Len(a), t) + Count(b, j, t)
    <2> TAKE j \in 0 .. Len(b)
    <2> DEFINE S == {i \in Nat : s[i] = t}
               T == {i \in Nat : b[i] = t}
               m == Len(a)
    <2>1. \A x \in 1 .. j : m + x \in S <=> x \in T
      BY <1>1
    <2>2. m \in Nat /\ j \in Nat /\ m + j \in Nat /\ m \in 0 .. m
      BY <1>1
    <2> HIDE DEF S, T, m
    <2>3. Cardinality(Within(S, m + j)) = Cardinality(Within(S, m)) + Cardinality(Within(T, j))
      BY <2>1, <2>2, Tally
    <2>4. Count(s, m, t) = Count(a, m, t)
      BY <1>2, <2>2 DEF m
    <2>5. /\ Count(s, m + j, t) = Cardinality(Within(S, m + j))
          /\ Count(s, m, t) = Cardinality(Within(S, m))
          /\ Count(b, j, t) = Cardinality(Within(T, j))
      BY <2>2, CountIs DEF S, T
    <2>6. Count(s, m + j, t) = Count(a, m, t) + Count(b, j, t)
      BY <2>3, <2>4, <2>5
    <2> QED BY <2>6 DEF m
  <1> QED BY <1>2, <1>3 DEF s

(* Behind a word whose parentheses are closed the depth starts over.         *)
LEMMA TopCat ==
  ASSUME NEW a \in Word, NEW b \in Word, TopLevel(a, Len(a))
  PROVE  /\ \A i \in 0 .. Len(a) : TopLevel(a \o b, i) <=> TopLevel(a, i)
         /\ \A j \in 0 .. Len(b) : TopLevel(a \o b, Len(a) + j) <=> TopLevel(b, j)
  <1>1. ASSUME NEW i \in 0 .. Len(a) PROVE TopLevel(a \o b, i) <=> TopLevel(a, i)
    BY CountCat DEF TopLevel
  <1>2. ASSUME NEW j \in 0 .. Len(b) PROVE TopLevel(a \o b, Len(a) + j) <=> TopLevel(b, j)
    <2>1. PICK o, c : o = Count(a, Len(a), "open") /\ c = Count(a, Len(a), "close")
      OBVIOUS
    <2>2. PICK p, d : p = Count(b, j, "open") /\ d = Count(b, j, "close")
      OBVIOUS
    <2>3. o \in Nat /\ c \in Nat /\ p \in Nat /\ d \in Nat
      <3>1. Len(a) \in Nat /\ j \in Nat
        BY WordIs
      <3> QED BY <2>1, <2>2, <3>1, CountIs
    <2>4. o = c
      BY <2>1 DEF TopLevel
    <2>5. Count(a \o b, Len(a) + j, "open") = o + p /\ Count(a \o b, Len(a) + j, "close") = c + d
      BY <2>1, <2>2, CountCat
    <2> QED BY <2>2, <2>3, <2>4, <2>5 DEF TopLevel
  <1> QED BY <1>1, <1>2

(* The commas of the first n places that separate parameters.                *)
Commas(s, n) == Cardinality({i \in 1 .. n : s[i] = "comma" /\ TopLevel(s, i)})

(* So the commas that separate add up, too.                                  *)
LEMMA CommasCat ==
  ASSUME NEW a \in Word, NEW b \in Word, TopLevel(a, Len(a))
  PROVE  /\ Commas(a \o b, Len(a)) = Commas(a, Len(a))
         /\ Commas(a \o b, Len(a) + Len(b)) = Commas(a, Len(a)) + Commas(b, Len(b))
  <1> DEFINE s == a \o b
             S == {i \in Nat : s[i] = "comma" /\ TopLevel(s, i)}
             T == {i \in Nat : b[i] = "comma" /\ TopLevel(b, i)}
  <1>1. /\ \A i \in 1 .. Len(a) : s[i] = a[i]
        /\ \A j \in 1 .. Len(b) : s[Len(a) + j] = b[j]
        /\ Len(a) \in Nat /\ Len(b) \in Nat
    BY WordIs, WordCat
  <1>2. /\ \A i \in 1 .. Len(a) : TopLevel(s, i) <=> TopLevel(a, i)
        /\ \A j \in 1 .. Len(b) : TopLevel(s, Len(a) + j) <=> TopLevel(b, j)
    BY <1>1, TopCat
  <1> HIDE DEF s
  <1>3. {i \in 1 .. Len(a) : s[i] = "comma" /\ TopLevel(s, i)}
          = {i \in 1 .. Len(a) : a[i] = "comma" /\ TopLevel(a, i)}
    BY <1>1, <1>2
  <1>4. \A j \in 1 .. Len(b) : Len(a) + j \in S <=> j \in T
    <2> TAKE j \in 1 .. Len(b)
    <2>1. Len(a) + j \in Nat /\ j \in Nat
      BY <1>1
    <2> QED BY <1>1, <1>2, <2>1
  <1>5. Cardinality(Within(S, Len(a) + Len(b)))
          = Cardinality(Within(S, Len(a))) + Cardinality(Within(T, Len(b)))
    <2> HIDE DEF S, T
    <2> QED BY <1>1, <1>4, Tally
  <1>6. \A n \in Nat : Within(S, n) = {i \in 1 .. n : s[i] = "comma" /\ TopLevel(s, i)}
    BY DEF Within
  <1>7. Within(T, Len(b)) = {i \in 1 .. Len(b) : b[i] = "comma" /\ TopLevel(b, i)}
    BY <1>1 DEF Within
  <1>8. Len(a) + Len(b) \in Nat
    BY <1>1
  <1> HIDE DEF S, T
  <1>9. Commas(s, Len(a) + Len(b)) = Commas(s, Len(a)) + Commas(b, Len(b))
    BY <1>1, <1>5, <1>6, <1>7, <1>8 DEF Commas
  <1>10. Commas(s, Len(a)) = Commas(a, Len(a))
    BY <1>3 DEF Commas
  <1> QED BY <1>9, <1>10 DEF s

(* A token that is no parenthesis: a comma separates.                        *)
LEMMA OneToken ==
  ASSUME NEW t \in Token, t \notin {"open", "close"}
  PROVE  TopLevel(<<t>>, Len(<<t>>)) /\ Commas(<<t>>, Len(<<t>>)) = IF t = "comma" THEN 1 ELSE 0
  <1>1. Len(<<t>>) = 1 /\ <<t>>[1] = t /\ 1 .. 1 = {1}
    OBVIOUS
  <1>2. {i \in {1} : <<t>>[i] = "open"} = {} /\ {i \in {1} : <<t>>[i] = "close"} = {}
    BY <1>1
  <1>3. TopLevel(<<t>>, 1)
    BY <1>1, <1>2 DEF TopLevel, Count
  <1>4. {i \in {1} : <<t>>[i] = "comma" /\ TopLevel(<<t>>, i)} = IF t = "comma" THEN {1} ELSE {}
    BY <1>1, <1>3
  <1>5. Cardinality({1}) = 1 /\ Cardinality({}) = 0
    BY FS_EmptySet, FS_Singleton
  <1> QED BY <1>1, <1>3, <1>4, <1>5 DEF Commas

(* What SignaturesAssumption says of a parameter.                            *)
Plain(p) == TopLevel(p, Len(p)) /\ \A i \in DOMAIN p : p[i] = "comma" => ~TopLevel(p, i)

(* A parameter has no comma that separates.                                  *)
LEMMA PlainHasNone ==
  ASSUME NEW p \in Word, Plain(p) PROVE Commas(p, Len(p)) = 0
  <1>1. {i \in 1 .. Len(p) : p[i] = "comma" /\ TopLevel(p, i)} = {}
    BY WordIs DEF Plain
  <1> QED BY <1>1, FS_EmptySet DEF Commas

(* A parameter with the comma in front of it has one.                        *)
LEMMA ItemIs ==
  ASSUME NEW parts, NEW n \in Nat, parts[n] \in Word, Plain(parts[n])
  PROVE  /\ Item(parts, n) \in Word
         /\ TopLevel(Item(parts, n), Len(Item(parts, n)))
         /\ Commas(Item(parts, n), Len(Item(parts, n))) = IF n = 1 THEN 0 ELSE 1
  <1>1. PICK p : p = parts[n]
    OBVIOUS
  <1>2. p \in Word /\ Plain(p) /\ Len(p) \in Nat /\ TopLevel(p, Len(p))
    BY <1>1 DEF Plain
  <1>3. Commas(p, Len(p)) = 0
    BY <1>2, PlainHasNone
  <1>4. CASE n = 1
    BY <1>1, <1>2, <1>3, <1>4 DEF Item
  <1>5. CASE n # 1
    <2>1. PICK c : c = <<"comma">>
      OBVIOUS
    <2>2. c \in Word /\ Len(c) = 1 /\ TopLevel(c, Len(c)) /\ Commas(c, Len(c)) = 1
      <3>1. c \in Word /\ Len(c) = 1
        BY <2>1 DEF Word, Token
      <3>2. "comma" \in Token /\ "comma" \notin {"open", "close"}
        BY DEF Token
      <3> QED BY <2>1, <3>1, <3>2, OneToken
    <2>3. c \o p \in Word /\ Len(c \o p) = Len(c) + Len(p)
      BY <1>2, <2>2, WordCat
    <2>4. TopLevel(c \o p, Len(c) + Len(p))
      <3>1. Len(p) \in 0 .. Len(p)
        BY <1>2
      <3> QED BY <1>2, <2>2, <3>1, TopCat
    <2>5. Commas(c \o p, Len(c) + Len(p)) = 1 + 0
      BY <1>2, <1>3, <2>2, CommasCat
    <2> QED BY <1>1, <1>5, <2>1, <2>3, <2>4, <2>5 DEF Item
  <1> QED BY <1>4, <1>5

(* Of n parameters in a row, n - 1 commas separate.                          *)
LEMMA Joined ==
  ASSUME NEW parts, NEW N \in Nat \ {0}, N = Len(parts),
         \A n \in 1 .. N : parts[n] \in Word /\ Plain(parts[n])
  PROVE  /\ Join(parts) \in Word
         /\ TopLevel(Join(parts), Len(Join(parts)))
         /\ Commas(Join(parts), Len(Join(parts))) = N - 1
  <1>1. N \in Nat /\ N >= 1
    OBVIOUS
  <1>2. PICK f : /\ Join(parts) = f[N]
                 /\ f[0] = <<>>
                 /\ \A n \in 1 .. N : f[n] = f[n - 1] \o Item(parts, n)
    BY <1>1, JoinIs
  <1> DEFINE Right(n) == /\ f[n] \in Word
                         /\ TopLevel(f[n], Len(f[n]))
                         /\ Commas(f[n], Len(f[n])) = n - 1
             S == {n \in Nat : n + 1 <= N => Right(n + 1)}
  <1>3. 0 \in S
    <2>1. PICK it : it = Item(parts, 1)
      OBVIOUS
    <2>2. it \in Word /\ TopLevel(it, Len(it)) /\ Commas(it, Len(it)) = 0
      BY <1>1, <2>1, ItemIs
    <2>3. f[1] = f[0] \o it /\ f[0] = <<>>
      <3>1. 1 \in 1 .. N /\ 1 - 1 = 0
        BY <1>1
      <3> QED BY <1>2, <2>1, <3>1
    <2>4. f[1] = it
      BY <2>2, <2>3, WordCats
    <2> QED BY <2>2, <2>4
  <1>4. \A n \in Nat : n \in S => n + 1 \in S
    <2> SUFFICES ASSUME NEW n \in Nat, n \in S, (n + 1) + 1 <= N PROVE Right((n + 1) + 1)
      OBVIOUS
    <2>1. PICK m : m = n + 1
      OBVIOUS
    <2>2. m \in Nat /\ m >= 1 /\ m + 1 \in 1 .. N /\ m + 1 # 1 /\ (m + 1) - 1 = m
      BY <1>1, <2>1
    <2>3. Right(m)
      BY <1>1, <2>1
    <2>4. PICK it : it = Item(parts, m + 1)
      OBVIOUS
    <2>5. it \in Word /\ TopLevel(it, Len(it)) /\ Commas(it, Len(it)) = 1
      BY <1>1, <2>2, <2>4, ItemIs
    <2>6. PICK g : g = f[m]
      OBVIOUS
    <2>7. g \in Word /\ TopLevel(g, Len(g)) /\ Commas(g, Len(g)) = m - 1
      BY <2>3, <2>6
    <2>8. f[m + 1] = g \o it
      BY <1>2, <2>2, <2>4, <2>6
    <2>9. /\ g \o it \in Word /\ Len(g \o it) = Len(g) + Len(it)
          /\ Len(g) \in Nat /\ Len(it) \in Nat
      BY <2>5, <2>7, WordIs, WordCat
    <2>10. TopLevel(g \o it, Len(g) + Len(it))
      BY <2>5, <2>7, <2>9, TopCat
    <2>11. Commas(g \o it, Len(g) + Len(it)) = (m - 1) + 1
      BY <2>5, <2>7, CommasCat
    <2>12. Right(m + 1)
      BY <2>2, <2>8, <2>9, <2>10, <2>11
    <2> QED BY <2>1, <2>12
  <1>5. N - 1 \in Nat /\ (N - 1) + 1 = N
    BY <1>1
  <1>6. N - 1 \in S
    <2> HIDE DEF S
    <2> QED BY <1>3, <1>4, <1>5, Upward
  <1>7. Right(N)
    BY <1>5, <1>6
  <1> QED BY <1>1, <1>2, <1>7

(* require_arity counts the parameters of every declaration: its cut is at   *)
(* the arrow of the declaration, the last one that is outside parentheses.   *)
LEMMA ArityCounts == \A sig \in Signatures : Arity(Tokens(sig)) = Len(sig.params)
  <1> TAKE sig \in Signatures
  <1>1. PICK parts : parts = sig.params
    OBVIOUS
  <1>2. PICK r \in Word : r = sig.result
    BY DecksAssumption DEF Word
  <1> DEFINE N == Len(parts)
  <1>3. /\ N \in Nat \ {0}
        /\ \A n \in 1 .. N : parts[n] \in Word /\ Plain(parts[n])
        /\ \A i \in 1 .. Len(r) : r[i] = "arrow" => ~TopLevel(r, i)
    <2>1. parts \in Seq(Word) /\ parts # <<>>
      BY <1>1, DecksAssumption, SignaturesAssumption DEF Word
    <2>2. N \in Nat \ {0} /\ DOMAIN parts = 1 .. N /\ \A n \in 1 .. N : parts[n] \in Word
      BY <2>1
    <2>3. \A n \in DOMAIN parts : Plain(parts[n])
      BY <1>1, SignaturesAssumption DEF Plain
    <2>4. \A i \in DOMAIN r : r[i] = "arrow" => ~TopLevel(r, i)
      BY <1>2, SignaturesAssumption
    <2> QED BY <2>2, <2>3, <2>4, WordIs
  <1>4. PICK J : J = Join(parts)
    OBVIOUS
  <1>5. J \in Word /\ TopLevel(J, Len(J)) /\ Commas(J, Len(J)) = N - 1
    <2> HIDE DEF N
    <2>1. N = Len(parts)
      BY DEF N
    <2> QED BY <1>3, <1>4, <2>1, Joined
  <1>6. PICK w : w = <<"arrow">>
    OBVIOUS
  <1>7. w \in Word /\ Len(w) = 1 /\ w[1] = "arrow" /\ TopLevel(w, Len(w))
    <2>1. w \in Word /\ Len(w) = 1 /\ w[1] = "arrow"
      BY <1>6 DEF Word, Token
    <2>2. "arrow" \in Token /\ "arrow" \notin {"open", "close"}
      BY DEF Token
    <2> QED BY <1>6, <2>1, <2>2, OneToken
  <1>8. PICK a : a = J \o w
    OBVIOUS
  <1>9. a \in Word /\ Len(a) = Len(J) + 1 /\ Len(J) \in Nat /\ a[Len(J) + 1] = "arrow"
    <2>1. 1 \in 1 .. Len(w)
      BY <1>7
    <2>2. a \in Word /\ Len(a) = Len(J) + Len(w) /\ a[Len(J) + 1] = w[1]
      BY <1>5, <1>7, <1>8, <2>1, WordCat
    <2> QED BY <1>5, <1>7, <2>2, WordIs
  <1>10. TopLevel(a, Len(a))
    <2>1. TopLevel(J \o w, Len(J) + Len(w))
      <3>1. Len(w) \in 0 .. Len(w)
        BY <1>7
      <3> QED BY <1>5, <1>7, <3>1, TopCat
    <2> QED BY <1>7, <1>8, <1>9, <2>1
  <1>11. PICK s : s = a \o r
    OBVIOUS
  <1>12. Tokens(sig) = s
    BY <1>1, <1>2, <1>4, <1>6, <1>8, <1>11 DEF Tokens
  <1>13. /\ s \in Word /\ Len(s) = Len(a) + Len(r) /\ Len(r) \in Nat
         /\ \A i \in 1 .. Len(a) : s[i] = a[i]
         /\ \A j \in 1 .. Len(r) : s[Len(a) + j] = r[j]
         /\ DOMAIN s = 1 .. Len(a) + Len(r)
    BY <1>9, <1>11, WordIs, WordCat
  <1> DEFINE arrows == {i \in DOMAIN s : s[i] = "arrow" /\ TopLevel(s, i)}
             last == Len(J) + 1
  <1>14. last \in arrows
    <2>1. TopLevel(s, Len(a))
      BY <1>9, <1>10, <1>11, TopCat
    <2> QED BY <1>9, <1>13, <2>1
  <1>15. \A j \in arrows : j <= last
    <2> SUFFICES ASSUME NEW j \in arrows, j > last PROVE FALSE
      BY <1>9, <1>13
    <2>1. PICK k \in 1 .. Len(r) : j = Len(a) + k
      <3>1. j \in 1 .. Len(a) + Len(r) /\ j > Len(a)
        BY <1>9, <1>13
      <3>2. j - Len(a) \in 1 .. Len(r) /\ j = Len(a) + (j - Len(a))
        BY <1>9, <1>13, <3>1
      <3> QED BY <3>2
    <2>2. r[k] = "arrow" /\ TopLevel(s, Len(a) + k)
      BY <1>13, <2>1
    <2>3. TopLevel(r, k)
      BY <1>9, <1>10, <1>11, <2>2, TopCat
    <2> QED BY <1>3, <2>2, <2>3
  <1>16. (CHOOSE i \in arrows : \A j \in arrows : j <= i) = last
    <2>1. arrows \subseteq Nat
      BY <1>13
    <2> HIDE DEF arrows
    <2>2. \A i \in arrows : (\A j \in arrows : j <= i) => i = last
      BY <1>9, <1>14, <1>15, <2>1
    <2> QED BY <1>14, <1>15, <2>2
  <1>17. Arity(s) = Commas(s, last - 1) + 1
    BY <1>14, <1>16 DEF Arity, Commas
  <1>18. last - 1 = Len(J)
    BY <1>9
  <1>19. Commas(s, Len(J)) = Commas(J, Len(J))
    <2>1. PICK b : b = w \o r
      OBVIOUS
    <2>2. b \in Word /\ s = J \o b
      BY <1>5, <1>7, <1>8, <1>11, <2>1, WordCat, WordCats
    <2> QED BY <1>5, <2>2, CommasCat
  <1> QED BY <1>1, <1>3, <1>5, <1>12, <1>17, <1>18, <1>19

(* So a chapter is there only if its phase calls are fully applied.          *)
LEMMA FullyApplied ==
  (step # 0 => takes = Passed) /\ [Next]_vars => (step # 0 => takes = Passed)'
  <1> SUFFICES ASSUME step # 0 => takes = Passed, [Next]_vars
               PROVE  (step # 0 => takes = Passed)'
    OBVIOUS
  <1>1. CASE Generate
    BY <1>1, ArityCounts DEF Generate
  <1>2. CASE takes' = takes /\ (step # 0 \/ step' = step)
    BY <1>2
  <1>3. CASE \/ StartSubject \/ Build \/ DeckSet \/ Compact \/ EmitBuild
             \/ PhaseEnds \/ Release \/ HandOn \/ ScratchBack
    BY <1>2, <1>3 DEF StartSubject, Build, DeckSet, Compact, EmitBuild, PhaseEnds, Release,
                      HandOn, ScratchBack, InPhase, At, unit
  <1>4. ASSUME NEW size \in 1 .. MaxSize,
               Unwrapped(size) \/ Check(size) \/ Lower(size) \/ Walk(size) \/ Emit(size)
        PROVE  (step # 0 => takes = Passed)'
    <2>1. ASSUME NEW at, NEW keep, NEW work,
                 OnDeck(size, work) \/ OnBivy(size, at) \/ Copied(keep, size, work)
          PROVE  takes' = takes /\ step' = step
      BY <2>1 DEF OnDeck, OnBivy, Copied, unit
    <2>2. ASSUME NEW left, CutShort(left) \/ Trap PROVE takes' = takes
      BY <2>2 DEF CutShort, Trap, unit
    <2>3. step # 0
      BY <1>4 DEF Unwrapped, Check, Lower, Walk, Emit, InPhase, At
    <2>4. takes' = takes
      BY <1>4, <2>1, <2>2 DEF Unwrapped, Check, Lower, Walk, Emit, unit
    <2> QED BY <1>2, <2>3, <2>4
  <1>5. CASE UNCHANGED vars
    BY <1>2, <1>5 DEF vars, unit
  <1> QED BY <1>1, <1>3, <1>4, <1>5 DEF Next, Over

(* Whatever the declarations and the heights: every subject starts on the    *)
(* heap the first one started on, with its phase calls fully applied.        *)
THEOREM EverySubjectAfresh == Spec => []StartsAfresh
  <1>1. Init => (step # 0 => takes = Passed)
    BY DEF Init
  <1>2. (step # 0 => takes = Passed) /\ (step = 1 => bivy = 0 /\ live = {})
          => StartsAfresh
    BY DEF StartsAfresh
  <1> QED BY <1>1, <1>2, HeapStartsAfresh, FullyApplied, PTL DEF Spec
=============================================================================
