------------------------ MODULE RingTransportProofs ------------------------
(***************************************************************************)
(* Theorems about RingTransport for every blob, ring, piece and cell size,  *)
(* every stall limit and every behaviour of the guest.                      *)
(*                                                                          *)
(* The argument: the cursors are unbounded, wpos - gr never exceeds the     *)
(* ring, and two positions closer than the ring's size are in different     *)
(* slots (ModApart).  So a refill, which starts at wpos and is no longer    *)
(* than the room behind the guest, lands on slots already consumed.         *)
(***************************************************************************)
EXTENDS RingTransport, FiniteSetTheorems, TLAPS

(* --- Arithmetic of the ring index ---------------------------------------- *)

(* A masked counter is a slot.                                              *)
LEMMA ModRange ==
  ASSUME NEW R \in Nat \ {0}, NEW p \in Nat
  PROVE  p % R \in 0 .. R - 1
  OBVIOUS

(* Division with remainder.                                                 *)
LEMMA Euclid ==
  ASSUME NEW R \in Nat \ {0}, NEW p \in Nat
  PROVE  /\ p \div R \in Nat
         /\ p = R * (p \div R) + (p % R)
  OBVIOUS

(* The remainder is determined.                                             *)
LEMMA ModUnique ==
  ASSUME NEW R \in Nat \ {0}, NEW k \in Nat, NEW r \in Nat, r < R
  PROVE  (R * k + r) % R = r
  OBVIOUS

(* Advancing a counter by less than a ring advances its slot, or wraps it.  *)
LEMMA ModAdd ==
  ASSUME NEW R \in Nat \ {0}, NEW p \in Nat, NEW j \in 0 .. R - 1
  PROVE  (p + j) % R = IF (p % R) + j < R THEN (p % R) + j ELSE (p % R) + j - R
  <1>1. CASE (p % R) + j < R
    BY <1>1
  <1>2. CASE ~((p % R) + j < R)
    <2> DEFINE k == p \div R
               r == (p % R) + j - R
    <2>1. k \in Nat /\ p = R * k + (p % R)
      BY Euclid
    <2>2. p % R \in 0 .. R - 1
      BY ModRange
    <2>3. r \in Nat /\ r < R
      BY <1>2, <2>2
    <2>4. R * (k + 1) = R * k + R
      BY <2>1
    <2>5. p + j = R * (k + 1) + r
      BY <2>1, <2>2, <2>3, <2>4
    <2>6. (R * (k + 1) + r) % R = r
      <3>1. k + 1 \in Nat
        BY <2>1
      <3> HIDE DEF k, r
      <3> QED BY <2>3, <3>1, ModUnique
    <2> QED BY <1>2, <2>5, <2>6
  <1> QED BY <1>1, <1>2

(* Positions less than a ring apart live in different slots.                *)
LEMMA ModApart ==
  ASSUME NEW R \in Nat \ {0}, NEW p \in Nat, NEW q \in Nat, p < q, q < p + R
  PROVE  p % R # q % R
  <1>1. PICK j \in 0 .. R - 1 : j > 0 /\ q = p + j
    <2>1. q - p \in 0 .. R - 1 /\ q - p > 0 /\ q = p + (q - p)
      OBVIOUS
    <2> QED BY <2>1
  <1>2. p % R \in 0 .. R - 1
    BY ModRange
  <1>3. q % R = IF (p % R) + j < R THEN (p % R) + j ELSE (p % R) + j - R
    BY <1>1, ModAdd
  <1> QED BY <1>1, <1>2, <1>3

(* The two packets of a piece write the positions base .. base + piece - 1  *)
(* to their slots and leave every other slot alone.                         *)
LEMMA SplitWriteSlots ==
  ASSUME NEW base \in Nat, NEW piece \in 0 .. RingSize
  PROVE  /\ \A p \in base .. base + piece - 1 :
              SplitWrite(base, piece)[p % RingSize] = p
         /\ \A p \in Nat : base + piece - RingSize <= p /\ p < base
              => SplitWrite(base, piece)[p % RingSize] = ring[p % RingSize]
         /\ \A s \in Slots : \/ SplitWrite(base, piece)[s] = ring[s]
                            \/ SplitWrite(base, piece)[s] \in base .. base + piece - 1
  <1> DEFINE R    == RingSize
             pos  == base % R
             head == Lesser(piece, R - pos)
             new  == SplitWrite(base, piece)
  <1>a. R \in Nat \ {0}
    BY RingAssumption
  <1>b. \A s \in 0 .. R - 1 :
          new[s] = IF pos <= s /\ s < pos + head THEN base + (s - pos)
                   ELSE IF s < piece - head THEN base + head + s
                   ELSE ring[s]
    BY DEF SplitWrite, Slots
  <1>c. head = Lesser(piece, R - pos) /\ Slots = 0 .. R - 1
    BY DEF Slots
  <1>0. pos \in 0 .. R - 1
    BY <1>a, ModRange
  <1>d. \A j \in 0 .. R - 1 :
          (base + j) % R = IF pos + j < R THEN pos + j ELSE pos + j - R
    BY <1>a, ModAdd
  <1>e. \A p \in Nat : p % R \in 0 .. R - 1
    BY <1>a, ModRange
  <1> HIDE DEF R, pos, head, new
  <1>1. head \in 0 .. piece /\ head <= R - pos
    BY <1>0, <1>a, <1>c DEF Lesser
  <1>2. ASSUME NEW p \in base .. base + piece - 1
        PROVE  new[p % R] = p
    <2>1. PICK j \in 0 .. R - 1 : j < piece /\ p = base + j
      <3>1. p - base \in 0 .. R - 1 /\ p - base < piece /\ p = base + (p - base)
        BY <1>a DEF R
      <3> QED BY <3>1
    <2> DEFINE s == p % R
    <2>2. s = IF pos + j < R THEN pos + j ELSE pos + j - R
      BY <1>d, <2>1
    <2>3. s \in 0 .. R - 1
      BY <1>e
    <2> HIDE DEF s
    <2>4. CASE pos + j < R
      <3>1. pos <= s /\ s < pos + head /\ p = base + (s - pos)
        BY <1>0, <1>a, <1>c, <2>1, <2>2, <2>4 DEF Lesser
      <3> QED BY <1>b, <2>3, <3>1 DEF s
    <2>5. CASE ~(pos + j < R)
      <3>1. head = R - pos
        BY <1>0, <1>a, <1>c, <2>1, <2>5 DEF Lesser
      <3>2. ~(pos <= s) /\ s < piece - head /\ p = base + head + s
        BY <1>0, <1>a, <2>1, <2>2, <2>5, <3>1
      <3> QED BY <1>b, <2>3, <3>2 DEF s
    <2> QED BY <2>4, <2>5
  <1>3. ASSUME NEW p \in Nat, base + piece - R <= p, p < base
        PROVE  new[p % R] = ring[p % R]
    <2> DEFINE s == p % R
    <2>1. s \in 0 .. R - 1
      BY <1>e
    <2>2. ASSUME NEW j \in 0 .. R - 1, j < piece
          PROVE  s # IF pos + j < R THEN pos + j ELSE pos + j - R
      <3>1. base + j \in Nat /\ p < base + j /\ base + j < p + R
        BY <1>3, <1>a, <2>2
      <3>2. p % R # (base + j) % R
        BY <1>a, <3>1, ModApart
      <3> QED BY <1>d, <3>2
    <2> HIDE DEF s
    <2>3. ~(pos <= s /\ s < pos + head)
      <3>1. SUFFICES ASSUME pos <= s, s < pos + head PROVE FALSE
        OBVIOUS
      <3>2. /\ s - pos \in 0 .. R - 1 /\ s - pos < piece
            /\ pos + (s - pos) = s /\ pos + (s - pos) < R
        BY <1>0, <1>1, <1>a, <2>1, <3>1
      <3> QED BY <2>2, <3>2
    <2>4. ~(s < piece - head)
      <3>1. SUFFICES ASSUME s < piece - head PROVE FALSE
        OBVIOUS
      <3>2. head = R - pos
        BY <1>0, <1>a, <1>c, <2>1, <3>1 DEF Lesser
      <3>3. /\ head + s \in 0 .. R - 1 /\ head + s < piece
            /\ pos + (head + s) - R = s /\ ~(pos + (head + s) < R)
        BY <1>0, <1>1, <1>a, <2>1, <3>1, <3>2 DEF R
      <3> QED BY <2>2, <3>3
    <2> QED BY <1>b, <2>1, <2>3, <2>4 DEF s
  <1>4. ASSUME NEW s \in 0 .. R - 1
        PROVE  new[s] = ring[s] \/ new[s] \in base .. base + piece - 1
    BY <1>0, <1>1, <1>a, <1>b
  <1> QED BY <1>2, <1>3, <1>4, <1>c DEF new, R

(* --- The inductive invariant ---------------------------------------------- *)

(* A run starts with both cursors at zero and nothing consumed.             *)
LEMMA InitIInv == Init => IInv
  <1> USE RingAssumption
  <1> SUFFICES ASSUME Init PROVE IInv
    OBVIOUS
  <1>1. TypeOK
    <2>1. ring \in [Slots -> 0 .. BlobLen - 1 \cup {Blank}]
      BY DEF Init, Preload, Slots, Staged, Lesser, Blank
    <2>2. /\ no_refill \in BOOLEAN /\ misread \in BOOLEAN
          /\ guest \in {"reading", "parked", "busy", "wedged", "dead"}
          /\ vm \in {"running", "stopped"} /\ phase = "attach" /\ verdict = "none"
      BY DEF Init
    <2>3. taken \in Seq(0 .. BlobLen - 1)
      BY DEF Init
    <2>4. /\ gw = 0 /\ gr = 0 /\ wpos = 0 /\ rpos = 0 /\ chunk = 0 /\ off = 0
          /\ last_rpos = -1 /\ stalled = 0 /\ stall_pcs = {} /\ idle = 0
      BY DEF Init
    <2> QED BY <2>1, <2>2, <2>3, <2>4 DEF TypeOK
  <1>2. ControlInv /\ StagedInv
    BY DEF Init, ControlInv, StagedInv, Refilling
  <1>3. CursorInv /\ WindowInv
    BY DEF Init, CursorInv, WindowInv, Cursors, Refilling
  <1>4. GuestReadsInOrder /\ VerdictNamesTheCulprit /\ StallsOnlyWhenServed
    BY DEF Init, GuestReadsInOrder, VerdictNamesTheCulprit, StallsOnlyWhenServed
  <1>5. IdleInv /\ NoBusyGuestGivenUp
    BY DEF Init, IdleInv, NoBusyGuestGivenUp, StallVerdicts
  <1> QED BY <1>1, <1>2, <1>3, <1>4, <1>5 DEF IInv

(* The numbers the steps below reason with.                                 *)
LEMMA Ranges ==
  ASSUME IInv
  PROVE  /\ gr \in 0 .. wpos /\ wpos \in 0 .. BlobLen /\ rpos \in 0 .. BlobLen
         /\ chunk \in 0 .. RingSize /\ off \in 0 .. chunk
         /\ wpos - gr <= RingSize
  <1>1. /\ gr \in Nat /\ wpos \in 0 .. BlobLen /\ rpos \in 0 .. BlobLen
        /\ chunk \in 0 .. RingSize /\ off \in 0 .. chunk
    BY DEF IInv, TypeOK
  <1>2. gr <= wpos /\ wpos - gr <= RingSize
    BY DEF IInv, CursorInv
  <1> QED BY <1>1, <1>2, RingAssumption

(* Attaching either finds the preload or gives up.                          *)
LEMMA AttachIInv == IInv /\ Attach => IInv'
  <1> SUFFICES ASSUME IInv, Attach PROVE IInv'
    OBVIOUS
  <1> USE RingAssumption DEF IInv, endVars, fillVars, stallVars
  <1>1. TypeOK'
    BY DEF TypeOK, Slots, Blank, Attach, Abandon, Interrupt
  <1>2. ControlInv'
    BY DEF Attach, Abandon, Interrupt, HeadVerified, ControlInv, Refilling
  <1>3. StagedInv'
    <2>1. CASE HeadVerified
      <3>1. 0 \in 0 .. HeadBytes - 1 /\ 0 \in Slots
        BY DEF Slots
      <3>2. ring # Preload(FALSE)
        BY <2>1, <3>1 DEF HeadVerified, Preload, Blank
      <3> QED BY <2>1, <3>2 DEF Attach, StagedInv
    <2>2. CASE ~HeadVerified
      BY <2>2 DEF Attach, Abandon, StagedInv
    <2> QED BY <2>1, <2>2
  <1>4. CursorInv' /\ WindowInv'
    BY DEF Attach, Abandon, StagedInv, CursorInv, WindowInv, Cursors, Refilling
  <1>5. GuestReadsInOrder' /\ VerdictNamesTheCulprit' /\ StallsOnlyWhenServed'
    BY DEF Attach, Abandon, StagedInv, GuestReadsInOrder,
           VerdictNamesTheCulprit, StallsOnlyWhenServed, StallVerdicts
  <1>6. IdleInv' /\ NoBusyGuestGivenUp'
    BY DEF Attach, Abandon, StagedInv, ControlInv, IdleInv,
           NoBusyGuestGivenUp, StallVerdicts
  <1> QED BY <1>1, <1>2, <1>3, <1>4, <1>5, <1>6

(* Setting the cursors publishes the staged bytes.                          *)
LEMMA InjectIInv == IInv /\ Inject => IInv'
  <1> SUFFICES ASSUME IInv, Inject PROVE IInv'
    OBVIOUS
  <1> USE RingAssumption DEF IInv, endVars, stallVars
  <1>a. Staged \in 0 .. BlobLen /\ Staged <= RingSize
        /\ (Staged < BlobLen => BlobLen > RingSize)
        /\ (~(Staged < BlobLen) => Staged = BlobLen /\ BlobLen <= RingSize)
    BY DEF Staged, Lesser
  <1>b. /\ gw' = Staged /\ wpos' = Staged /\ gr' = 0
        /\ taken' = taken /\ Len(taken) = 0
        /\ stalled' = 0 /\ last_rpos' = -1
        /\ verdict' = "none"
    BY DEF Inject, StagedInv, CursorInv, ControlInv
  <1>1. TypeOK'
    BY <1>a, <1>b DEF TypeOK, Slots, Blank, Inject
  <1>2. ControlInv'
    BY <1>a, <1>b DEF Inject, ControlInv, Refilling
  <1>3. StagedInv'
    BY DEF Inject, StagedInv
  <1>4. CursorInv'
    BY <1>a, <1>b DEF Inject, CursorInv, Cursors, Refilling
  <1>5. WindowInv'
    <2>1. \A p \in 0 .. Staged - 1 : p \in Slots /\ p % RingSize = p /\ ring[p] = p
      BY <1>a DEF Inject, StagedInv, Preload, Slots
    <2>2. Written' = Staged
      BY <1>a, <1>b DEF Inject, Written
    <2> QED BY <1>a, <1>b, <2>1, <2>2 DEF Inject, WindowInv
  <1>6. GuestReadsInOrder'
    BY <1>b DEF GuestReadsInOrder
  <1>7. VerdictNamesTheCulprit' /\ StallsOnlyWhenServed'
    <2>1. VerdictNamesTheCulprit'
      BY <1>b DEF VerdictNamesTheCulprit
    <2>2. StallsOnlyWhenServed'
      BY <1>b DEF StallsOnlyWhenServed
    <2> QED BY <2>1, <2>2
  <1>8. IdleInv' /\ NoBusyGuestGivenUp'
    BY <1>b DEF Inject, StagedInv, IdleInv, NoBusyGuestGivenUp, StallVerdicts, TypeOK
  <1> QED BY <1>1, <1>2, <1>3, <1>4, <1>5, <1>6, <1>7, <1>8

(* Resuming or detaching only starts the VM.                                *)
LEMMA ResumeIInv ==
  ASSUME IInv, NEW wakes \in BOOLEAN, Resume(wakes) \/ Detach(wakes)
  PROVE  IInv'
  <1> USE DEF IInv, endVars, cellVars, fillVars, stallVars
  <1>1. TypeOK'
    BY DEF TypeOK, Slots, Blank, Resume, Detach, ResumeVM
  <1>2. ControlInv'
    BY DEF Resume, Detach, ResumeVM, ControlInv, Refilling
  <1>3. StagedInv'
    BY DEF Resume, Detach, StagedInv
  <1>4. CursorInv'
    BY DEF Resume, Detach, CursorInv, Cursors, Refilling, Staged
  <1>5. WindowInv'
    BY DEF Resume, Detach, WindowInv, Written, Cursors, Refilling
  <1>6. GuestReadsInOrder' /\ VerdictNamesTheCulprit' /\ StallsOnlyWhenServed'
    BY DEF Resume, Detach, GuestReadsInOrder, VerdictNamesTheCulprit,
           StallsOnlyWhenServed, ControlInv, StallVerdicts
  <1>7. IdleInv' /\ NoBusyGuestGivenUp'
    BY DEF Resume, Detach, ControlInv, IdleInv, NoBusyGuestGivenUp, StallVerdicts
  <1> QED BY <1>1, <1>2, <1>3, <1>4, <1>5, <1>6, <1>7

(* Waking up leaves, starts a refill of a non-empty room, or goes to judge. *)
LEMMA WakeIInv == IInv /\ Wake => IInv'
  <1> SUFFICES ASSUME IInv, Wake PROVE IInv'
    OBVIOUS
  <1> USE RingAssumption DEF IInv, endVars, cellVars, guestVars, stallVars
  <1>a. gw = wpos /\ BlobLen > RingSize /\ Staged <= wpos
        /\ (no_refill => wpos = Staged)
    BY DEF Wake, CursorInv, ControlInv, Cursors, Refilling
  <1>b. Room \in 0 .. RingSize /\ Staged = RingSize
    BY <1>a, Ranges DEF Room, Staged, Lesser
  <1>c. /\ rpos' = gr
        /\ UNCHANGED <<no_refill, ring, gw, gr, taken, guest, wpos, last_rpos, stalled,
                       stall_pcs, idle, verdict, misread>>
    BY DEF Wake
  <1>d. \/ /\ phase' = "detach" /\ gr >= BlobLen
           /\ UNCHANGED <<chunk, off>>
        \/ /\ phase' = "fill" /\ gr < BlobLen /\ ~no_refill
           /\ chunk' = Lesser(Room, BlobLen - wpos) /\ chunk' \in 1 .. RingSize
           /\ off' = 0
        \/ /\ phase' = "judge" /\ gr < BlobLen
           /\ no_refill \/ Room <= 0 \/ wpos >= BlobLen
           /\ UNCHANGED <<chunk, off>>
    BY <1>b, Ranges DEF Wake, Consumed, RefillLen, Lesser
  <1>1. TypeOK'
    <2>1. chunk' \in 0 .. RingSize /\ off' \in 0 .. chunk'
      BY <1>d, Ranges
    <2>2. rpos' \in 0 .. BlobLen
      BY <1>c, Ranges
    <2>3. vm' = "stopped" /\ phase' \in {"detach", "fill", "judge"}
      BY <1>d DEF Wake, Interrupt
    <2> QED BY <1>c, <2>1, <2>2, <2>3 DEF TypeOK, Slots, Blank
  <1>2. ControlInv'
    BY DEF Wake, Interrupt, ControlInv, Refilling
  <1>3. StagedInv'
    BY DEF Wake, StagedInv
  <1>4. CursorInv'
    <2> USE DEF CursorInv, Cursors, Refilling, Staged
    <2>1. CASE phase' = "detach"
      BY <1>a, <1>c, <1>d, <2>1, Ranges DEF Lesser
    <2>2. CASE phase' = "fill"
      BY <1>a, <1>c, <1>d, <2>2, Ranges DEF Room
    <2>3. CASE phase' = "judge"
      BY <1>a, <1>b, <1>c, <1>d, <2>3, Ranges DEF Room, Lesser
    <2> QED BY <1>d, <2>1, <2>2, <2>3
  <1>5. WindowInv'
    <2>1. Written' = wpos /\ Written = wpos
      BY <1>c, <1>d, Ranges DEF Wake, Written
    <2> QED BY <1>c, <2>1 DEF Wake, WindowInv, Cursors, Refilling
  <1>6. GuestReadsInOrder' /\ VerdictNamesTheCulprit' /\ StallsOnlyWhenServed'
    BY DEF Wake, GuestReadsInOrder, VerdictNamesTheCulprit,
           StallsOnlyWhenServed, ControlInv, StallVerdicts
  <1>7. IdleInv' /\ NoBusyGuestGivenUp'
    BY <1>c DEF Wake, ControlInv, IdleInv, NoBusyGuestGivenUp, StallVerdicts
  <1> QED BY <1>1, <1>2, <1>3, <1>4, <1>5, <1>6, <1>7

(* A piece extends what is written and disturbs nothing unread: it lies     *)
(* within the room behind the guest.                                        *)
LEMMA WritePieceIInv == IInv /\ WritePiece => IInv'
  <1> SUFFICES ASSUME IInv, WritePiece PROVE IInv'
    OBVIOUS
  <1> USE RingAssumption DEF IInv, endVars, guestVars, stallVars
  <1> DEFINE piece == Lesser(PieceMax, chunk - off)
             base  == wpos + off
  <1>a. /\ phase = "fill" /\ off \in 0 .. chunk /\ off < chunk
        /\ chunk <= RingSize - (wpos - gr) /\ chunk <= BlobLen - wpos
        /\ chunk \in 0 .. RingSize
        /\ gr \in 0 .. wpos /\ wpos \in 0 .. BlobLen /\ gw = wpos
    <2>1. phase = "fill" /\ off < chunk
      BY DEF WritePiece
    <2>2. /\ gw = wpos
          /\ chunk = Lesser(RingSize - (wpos - gr), BlobLen - wpos)
      BY <2>1 DEF CursorInv, Cursors, Refilling
    <2> QED BY <2>1, <2>2, Ranges DEF Lesser
  <1>b. /\ piece \in 0 .. RingSize /\ base \in Nat
        /\ off + piece \in 0 .. chunk
        /\ base + piece <= BlobLen
        /\ base + piece - RingSize <= gr
    BY <1>a DEF Lesser
  <1>c. ring' = SplitWrite(base, piece)
    BY DEF WritePiece
  <1>d. /\ off' = off + piece
        /\ UNCHANGED <<no_refill, gw, gr, taken, guest, vm, phase, wpos, rpos, chunk,
                       last_rpos, stalled, stall_pcs, idle, verdict, misread>>
    BY DEF WritePiece
  <1> HIDE DEF piece, base
  <1>e. /\ \A p \in base .. base + piece - 1 : ring'[p % RingSize] = p
        /\ \A p \in Nat : base + piece - RingSize <= p /\ p < base
                           => ring'[p % RingSize] = ring[p % RingSize]
        /\ \A s \in Slots : ring'[s] = ring[s] \/ ring'[s] \in base .. base + piece - 1
    <2>1. /\ \A p \in base .. base + piece - 1 :
                 SplitWrite(base, piece)[p % RingSize] = p
          /\ \A p \in Nat : base + piece - RingSize <= p /\ p < base
                => SplitWrite(base, piece)[p % RingSize] = ring[p % RingSize]
          /\ \A s \in Slots : \/ SplitWrite(base, piece)[s] = ring[s]
                              \/ SplitWrite(base, piece)[s] \in base .. base + piece - 1
      BY <1>b, SplitWriteSlots
    <2> QED BY <1>c, <2>1, Zenon
  <1>f. ring' \in [Slots -> 0 .. BlobLen - 1 \cup {Blank}]
    <2>1. ring' = [s \in Slots |-> ring'[s]]
      BY <1>c DEF SplitWrite
    <2>2. ASSUME NEW s \in Slots PROVE ring'[s] \in 0 .. BlobLen - 1 \cup {Blank}
      <3>1. ring[s] \in 0 .. BlobLen - 1 \cup {Blank}
        BY DEF TypeOK
      <3> QED BY <1>b, <1>e, <3>1
    <2> QED BY <2>1, <2>2
  <1>1. TypeOK'
    BY <1>a, <1>b, <1>d, <1>f DEF TypeOK, Slots, Blank
  <1>2. ControlInv' /\ StagedInv'
    BY <1>a, <1>d DEF ControlInv, StagedInv, Refilling
  <1>3. CursorInv'
    BY <1>d DEF CursorInv, Cursors, Refilling, Staged
  <1>4. WindowInv'
    <2> SUFFICES ASSUME NEW p \in gr .. base + piece - 1
                 PROVE  ring'[p % RingSize] = p
      BY <1>a, <1>b, <1>d DEF WindowInv, Written, base
    <2>1. CASE p < base
      <3>1. ring[p % RingSize] = p
        BY <1>a, <2>1 DEF WindowInv, Written, base, Cursors, Refilling
      <3> QED BY <1>a, <1>b, <1>e, <2>1, <3>1
    <2>2. CASE ~(p < base)
      BY <1>a, <1>b, <1>e, <2>2
    <2> QED BY <2>1, <2>2
  <1>5. GuestReadsInOrder' /\ VerdictNamesTheCulprit' /\ StallsOnlyWhenServed'
    BY <1>a, <1>d DEF GuestReadsInOrder, VerdictNamesTheCulprit,
                      StallsOnlyWhenServed, ControlInv, StallVerdicts
  <1>6. IdleInv' /\ NoBusyGuestGivenUp'
    BY <1>d DEF WritePiece, IdleInv, NoBusyGuestGivenUp, StallVerdicts
  <1> QED BY <1>1, <1>2, <1>3, <1>4, <1>5, <1>6

(* Counting the refill into wpos.                                           *)
LEMMA PublishLowIInv == IInv /\ PublishLow => IInv'
  <1> SUFFICES ASSUME IInv, PublishLow PROVE IInv'
    OBVIOUS
  <1> USE RingAssumption DEF IInv, endVars, guestVars, stallVars
  <1>a. /\ phase = "fill" /\ off = chunk /\ chunk \in 1 .. RingSize
        /\ chunk = Lesser(RingSize - (wpos - gr), BlobLen - wpos)
        /\ gr \in 0 .. wpos /\ wpos \in 0 .. BlobLen /\ gw = wpos /\ rpos = gr
        /\ wpos' = wpos + chunk /\ phase' = "publish"
    <2>1. /\ phase = "fill" /\ off = chunk
          /\ wpos' = wpos + chunk /\ phase' = "publish"
      BY DEF PublishLow
    <2>2. /\ chunk > 0 /\ rpos = gr
          /\ chunk = Lesser(RingSize - (wpos - gr), BlobLen - wpos)
      BY <2>1 DEF CursorInv
    <2>3. gw = wpos
      BY <2>1 DEF CursorInv, Cursors, Refilling
    <2> QED BY <2>1, <2>2, <2>3, Ranges
  <1>b. gw' \in Nat
    <2>1. gw % CellBase \in 0 .. gw /\ (wpos + chunk) % CellBase \in Nat
      BY <1>a
    <2> QED BY <2>1, <1>a DEF PublishLow
  <1>c. wpos' \in 0 .. BlobLen
    BY <1>a DEF Lesser
  <1>1. TypeOK'
    BY <1>a, <1>b, <1>c DEF TypeOK, Slots, Blank, PublishLow
  <1>2. ControlInv' /\ StagedInv'
    BY <1>a DEF PublishLow, ControlInv, StagedInv, Refilling
  <1>3. CursorInv'
    BY <1>a DEF PublishLow, CursorInv, Cursors, Refilling, Staged, Lesser
  <1>4. WindowInv'
    BY <1>a DEF PublishLow, WindowInv, Written, Cursors, Refilling
  <1>5. GuestReadsInOrder' /\ VerdictNamesTheCulprit' /\ StallsOnlyWhenServed'
    BY <1>a DEF PublishLow, GuestReadsInOrder, VerdictNamesTheCulprit,
                StallsOnlyWhenServed, ControlInv, StallVerdicts
  <1>6. IdleInv' /\ NoBusyGuestGivenUp'
    BY DEF PublishLow, IdleInv, NoBusyGuestGivenUp, StallVerdicts
  <1> QED BY <1>1, <1>2, <1>3, <1>4, <1>5, <1>6

(* Completing the cursor cell.                                              *)
LEMMA PublishHighIInv == IInv /\ PublishHigh => IInv'
  <1> SUFFICES ASSUME IInv, PublishHigh PROVE IInv'
    OBVIOUS
  <1> USE DEF IInv, endVars, guestVars, fillVars, stallVars
  <1>1. TypeOK'
    <2>1. gw' \in Nat
      BY Ranges DEF PublishHigh
    <2> QED BY <2>1 DEF TypeOK, Slots, Blank, PublishHigh
  <1>2. ControlInv' /\ StagedInv'
    BY DEF PublishHigh, ControlInv, StagedInv, Refilling
  <1>3. CursorInv'
    BY DEF PublishHigh, CursorInv, Cursors, Refilling, Staged
  <1>4. WindowInv'
    BY DEF PublishHigh, WindowInv, Written, Cursors, Refilling
  <1>5. GuestReadsInOrder' /\ VerdictNamesTheCulprit' /\ StallsOnlyWhenServed'
    BY DEF PublishHigh, GuestReadsInOrder, VerdictNamesTheCulprit,
           StallsOnlyWhenServed, ControlInv, StallVerdicts
  <1>6. IdleInv' /\ NoBusyGuestGivenUp'
    BY DEF PublishHigh, IdleInv, NoBusyGuestGivenUp, StallVerdicts
  <1> QED BY <1>1, <1>2, <1>3, <1>4, <1>5, <1>6

(* Judging: the cursors agree, so a verdict reached on them is right.       *)
LEMMA JudgeIInv == IInv /\ Judge => IInv'
  <1> SUFFICES ASSUME IInv, Judge PROVE IInv'
    OBVIOUS
  <1> USE RingAssumption DEF IInv, endVars, cellVars, fillVars
  <1>a. /\ phase = "judge" /\ verdict = "none" /\ rpos = gr /\ gw = wpos
        /\ gr \in 0 .. wpos /\ gr < BlobLen /\ BlobLen > RingSize
        /\ vm = "stopped"
        /\ no_refill => wpos = RingSize
        /\ ~no_refill => wpos = Lesser(BlobLen, rpos + RingSize)
    <2>1. phase = "judge"
      BY DEF Judge
    <2>2. verdict = "none" /\ BlobLen > RingSize /\ vm = "stopped"
      BY <2>1 DEF ControlInv, Refilling
    <2>3. /\ rpos = gr /\ gr < BlobLen /\ gw = wpos
          /\ no_refill => wpos = Staged
          /\ ~no_refill => wpos = Lesser(BlobLen, rpos + RingSize)
      BY <2>1 DEF CursorInv, Cursors, Refilling
    <2>4. Staged = RingSize
      BY <2>2 DEF Staged, Lesser
    <2> QED BY <2>1, <2>2, <2>3, <2>4, Ranges
  <1>b. PICK sample \in PCSamples, late \in BOOLEAN :
          /\ stall_pcs' = IF rpos # last_rpos THEN {} ELSE stall_pcs \cup sample
          /\ IF stalled' > StallRounds /\ ~Spared(stall_pcs', stalled')
               THEN misread' = late /\ \E why \in Verdicts(late) : Abandon(why)
               ELSE phase' = "resume" /\ UNCHANGED <<guest, vm, verdict, misread>>
    BY DEF Judge
  <1>c. /\ UNCHANGED <<no_refill, ring, gw, gr, taken, wpos, rpos, chunk, off>>
        /\ last_rpos' = rpos /\ idle' = Lesser(idle + 1, IdleMost)
        /\ stalled' = IF rpos # last_rpos THEN 0 ELSE stalled + 1
        /\ stalled' \in Nat /\ idle' \in Nat
        /\ stall_pcs' \subseteq PCs
    <2>1. /\ UNCHANGED <<no_refill, ring, gw, gr, taken, wpos, rpos, chunk, off>>
          /\ last_rpos' = rpos /\ idle' = Lesser(idle + 1, IdleMost)
          /\ stalled' = IF rpos # last_rpos THEN 0 ELSE stalled + 1
      BY DEF Judge, FrozenRounds
    <2>2. stalled \in Nat /\ idle \in Nat /\ stall_pcs \subseteq PCs
      BY DEF TypeOK
    <2>3. sample \subseteq PCs
      BY DEF PCSamples, Executing
    <2>4. stall_pcs' \subseteq PCs
      BY <1>b, <2>2, <2>3
    <2>5. idle' \in Nat
      BY <2>1, <2>2, RingAssumption DEF Lesser, IdleMost
    <2> QED BY <2>1, <2>2, <2>4, <2>5
  <1>d. ASSUME NEW w, NEW r
        PROVE  Culprit(w, r) \in {"write lost", "data is waiting", "ring is empty"}
    BY DEF Culprit
  <1>e. ASSUME NEW why \in Verdicts(late)
        PROVE  /\ why \in StallVerdicts
               /\ ~late => /\ why # "write lost"
                           /\ why = "data is waiting" => gr < wpos
                           /\ why = "ring is empty" => no_refill /\ gr = RingSize
    <2>1. CASE why = "cursors unreadable"
      BY <2>1 DEF StallVerdicts
    <2>2. CASE why # "cursors unreadable"
      <3>1. PICK c \in SeenCursors(late) : why = Culprit(c[1], c[2])
        BY <2>2 DEF Verdicts
      <3>2. why \in {"write lost", "data is waiting", "ring is empty"}
        BY <1>d, <3>1
      <3>3. ASSUME ~late
            PROVE  why = Culprit(gw, gr)
        BY <3>1, <3>3 DEF SeenCursors
      <3>4. /\ Culprit(gw, gr) # "write lost"
            /\ Culprit(gw, gr) = "data is waiting" => gr < wpos
            /\ Culprit(gw, gr) = "ring is empty" => no_refill /\ gr = RingSize
        BY <1>a DEF Culprit, Lesser
      <3> QED BY <3>2, <3>3, <3>4 DEF StallVerdicts
    <2> QED BY <2>1, <2>2
  <1>f. \/ /\ phase' = "resume" /\ guest' = guest /\ vm' = vm
           /\ verdict' = "none" /\ misread' = misread
        \/ /\ phase' = "failed" /\ guest' = "dead" /\ vm' = "stopped"
           /\ stalled' > StallRounds /\ ~Spared(stall_pcs', stalled')
           /\ misread' = late /\ verdict' \in Verdicts(late)
    BY <1>a, <1>b DEF Abandon
  <1>g. verdict' \in StallVerdicts \cup {"none"} /\ (phase' = "failed" <=> verdict' # "none")
    BY <1>e, <1>f DEF StallVerdicts
  <1>h. misread' \in BOOLEAN
    BY <1>f DEF TypeOK
  <1> HIDE DEF Verdicts
  <1>1. TypeOK'
    <2>1. /\ phase' \in {"resume", "failed"}
          /\ guest' \in {guest, "dead"} /\ vm' \in {vm, "stopped"}
      BY <1>f
    <2>2. last_rpos' \in -1 .. BlobLen
      BY <1>c, Ranges
    <2>3. verdict' \in {"none", "write lost", "data is waiting",
                        "ring is empty", "cursors unreadable"}
      BY <1>g DEF StallVerdicts
    <2> QED BY <1>c, <1>h, <2>1, <2>2, <2>3 DEF TypeOK, Slots, Blank
  <1>2. ControlInv'
    BY <1>a, <1>c, <1>f, <1>g DEF ControlInv, Refilling
  <1>3. StagedInv'
    BY <1>f DEF StagedInv
  <1>4. CursorInv'
    BY <1>a, <1>c, <1>f DEF CursorInv, Cursors, Refilling, Staged
  <1>5. WindowInv'
    BY <1>a, <1>c, <1>f DEF WindowInv, Written, Cursors, Refilling
  <1>6. GuestReadsInOrder'
    BY <1>c DEF GuestReadsInOrder
  <1>7. VerdictNamesTheCulprit'
    <2>1. Len(taken') = gr /\ wpos' = wpos /\ no_refill' = no_refill
      BY <1>c DEF CursorInv
    <2>2. verdict' = "none" \/ (verdict' \in Verdicts(late) /\ misread' = late)
      BY <1>f
    <2> QED BY <1>e, <2>1, <2>2 DEF VerdictNamesTheCulprit
  <1>8. StallsOnlyWhenServed'
    BY <1>a, <1>c DEF StallsOnlyWhenServed
  <1>9. IdleInv'
    <2>1. last_rpos' <= gr' /\ idle \in Nat /\ stalled \in Nat
      BY <1>a, <1>c, Ranges DEF TypeOK
    <2>2. rpos = last_rpos => stalled <= idle \/ idle = IdleMost
      BY <1>a DEF IdleInv
    <2>3. stalled' <= idle' \/ idle' = IdleMost
      BY <1>c, <2>1, <2>2, RingAssumption DEF Lesser, IdleMost
    <2> QED BY <2>1, <2>3 DEF IdleInv
  <1>10. NoBusyGuestGivenUp'
    <2>1. SUFFICES ASSUME verdict' \in StallVerdicts
                   PROVE  /\ idle' > StallRounds
                          /\ idle' < HardCap => Cardinality(stall_pcs') <= TinySet
      BY DEF NoBusyGuestGivenUp, StallVerdicts
    <2>2. stalled' > StallRounds /\ ~Spared(stall_pcs', stalled')
      BY <1>f, <2>1 DEF StallVerdicts
    <2>3. stalled' <= idle' \/ idle' = IdleMost
      BY <1>9, <1>a, <1>c DEF IdleInv
    <2>4. Cardinality(stall_pcs') \in Nat
      BY <1>c, FS_Subset, FS_CardinalityType
    <2>5. idle' > StallRounds
      BY <1>c, <2>2, <2>3, RingAssumption DEF IdleMost
    <2>6. idle' < HardCap => stalled' < HardCap
      BY <1>c, <2>3, RingAssumption DEF IdleMost
    <2> QED BY <2>2, <2>4, <2>5, <2>6, RingAssumption DEF Spared
  <1> QED BY <1>1, <1>2, <1>3, <1>4, <1>5, <1>6, <1>7, <1>8, <1>9, <1>10

(* A gdb failure kills the guest and keeps what it had consumed.            *)
LEMMA GdbFailsIInv == IInv /\ GdbFails => IInv'
  <1> SUFFICES ASSUME IInv, GdbFails PROVE IInv'
    OBVIOUS
  <1> USE DEF IInv, endVars, cellVars, fillVars, stallVars, GdbFails, Abandon
  <1>1. TypeOK'
    BY DEF TypeOK, Slots, Blank
  <1>2. ControlInv' /\ StagedInv'
    BY DEF ControlInv, StagedInv, Refilling
  <1>3. CursorInv' /\ WindowInv'
    BY DEF CursorInv, WindowInv, Cursors, Refilling
  <1>4. GuestReadsInOrder' /\ VerdictNamesTheCulprit' /\ StallsOnlyWhenServed'
    BY DEF GuestReadsInOrder, VerdictNamesTheCulprit, StallsOnlyWhenServed,
           StallVerdicts
  <1>5. IdleInv' /\ NoBusyGuestGivenUp'
    BY DEF IdleInv, NoBusyGuestGivenUp, StallVerdicts
  <1> QED BY <1>1, <1>2, <1>3, <1>4, <1>5

(* The guest takes the byte its cursor names.                               *)
LEMMA GuestReadIInv == IInv /\ GuestRead => IInv'
  <1> SUFFICES ASSUME IInv, GuestRead PROVE IInv'
    OBVIOUS
  <1> USE RingAssumption DEF IInv, endVars, cellVars, fillVars, stallVars
  <1>a. /\ phase \in {"sleep", "detached"} /\ verdict = "none"
        /\ gw = wpos /\ gr \in 0 .. wpos - 1 /\ wpos \in 0 .. BlobLen
    <2>1. vm = "running" /\ guest = "reading" /\ gr # gw
      BY DEF GuestRead
    <2>2. phase \in {"attach", "sleep", "detached"} /\ verdict = "none"
      BY <2>1 DEF ControlInv
    <2>3. phase # "attach"
      BY <2>1 DEF StagedInv
    <2>4. gw = wpos
      BY <2>2, <2>3 DEF CursorInv, Cursors, Refilling
    <2> QED BY <2>1, <2>2, <2>3, <2>4, Ranges
  <1>b. ring[gr % RingSize] = gr
    <2>1. Written = wpos /\ Cursors
      BY <1>a DEF Written, Cursors, Refilling
    <2> QED BY <1>a, <2>1 DEF WindowInv
  <1>c. /\ taken \in Seq(0 .. BlobLen - 1) /\ Len(taken) = gr
        /\ taken' = Append(taken, gr) /\ gr' = gr + 1
    BY <1>b DEF GuestRead, TypeOK, CursorInv
  <1>d. /\ taken' \in Seq(0 .. BlobLen - 1) /\ Len(taken') = gr + 1
        /\ \A i \in 1 .. gr + 1 : taken'[i] = IF i <= gr THEN taken[i] ELSE gr
    BY <1>a, <1>c
  <1>e. UNCHANGED <<no_refill, ring, gw, guest, vm, phase, wpos, rpos, chunk, off,
                    last_rpos, stalled, stall_pcs, verdict, misread>>
    BY DEF GuestRead
  <1>1. TypeOK'
    <2>1. idle' = 0
      BY DEF GuestRead
    <2> QED BY <1>a, <1>c, <1>d, <1>e, <2>1 DEF TypeOK, Slots, Blank
  <1>2. ControlInv' /\ StagedInv'
    BY <1>a, <1>e DEF ControlInv, StagedInv, Refilling
  <1>3. CursorInv'
    BY <1>a, <1>c, <1>d, <1>e DEF CursorInv, Cursors, Refilling, Staged
  <1>4. WindowInv'
    <2>1. Written = wpos /\ Written' = wpos /\ Cursors
      BY <1>a, <1>e DEF Written, Cursors, Refilling
    <2>2. \A p \in gr .. wpos - 1 : ring[p % RingSize] = p
      BY <2>1 DEF WindowInv
    <2>3. \A p \in gr + 1 .. wpos - 1 : p \in gr .. wpos - 1
      BY <1>a
    <2>4. \A p \in gr' .. Written' - 1 : ring'[p % RingSize] = p
      BY <1>c, <1>e, <2>1, <2>2, <2>3
    <2> QED BY <2>4 DEF WindowInv
  <1>5. GuestReadsInOrder'
    BY <1>a, <1>c, <1>d DEF GuestReadsInOrder
  <1>6. VerdictNamesTheCulprit' /\ StallsOnlyWhenServed'
    BY <1>a, <1>e DEF VerdictNamesTheCulprit, StallsOnlyWhenServed, StallVerdicts
  <1>7. IdleInv' /\ NoBusyGuestGivenUp'
    BY <1>a, <1>c, <1>e, Ranges DEF GuestRead, IdleInv, NoBusyGuestGivenUp,
       StallVerdicts, TypeOK
  <1> QED BY <1>1, <1>2, <1>3, <1>4, <1>5, <1>6, <1>7

(* The guest's other steps change only what it is doing.                    *)
LEMMA GuestTurnsIInv ==
  ASSUME IInv, NEW from, NEW to \in {"reading", "parked", "busy", "wedged"},
         GuestTurns(from, to)
  PROVE  IInv'
  <1> USE DEF IInv, endVars, cellVars, fillVars, stallVars, GuestTurns
  <1>1. TypeOK'
    BY DEF TypeOK, Slots, Blank
  <1>2. ControlInv' /\ StagedInv'
    BY DEF ControlInv, StagedInv, Refilling
  <1>3. CursorInv' /\ WindowInv'
    BY DEF CursorInv, WindowInv, Cursors, Refilling, Written, Staged
  <1>4. GuestReadsInOrder' /\ VerdictNamesTheCulprit' /\ StallsOnlyWhenServed'
    BY DEF GuestReadsInOrder, VerdictNamesTheCulprit, StallsOnlyWhenServed
  <1>5. IdleInv' /\ NoBusyGuestGivenUp'
    BY DEF IdleInv, NoBusyGuestGivenUp, StallVerdicts
  <1> QED BY <1>1, <1>2, <1>3, <1>4, <1>5

(* Every step keeps the invariant.                                          *)
LEMMA NextIInv == IInv /\ [Next]_vars => IInv'
  <1> SUFFICES ASSUME IInv, [Next]_vars PROVE IInv'
    OBVIOUS
  <1>1. CASE HostStep
    BY <1>1, AttachIInv, InjectIInv, WakeIInv, WritePieceIInv, PublishLowIInv,
       PublishHighIInv, JudgeIInv, ResumeIInv DEF HostStep
  <1>2. CASE GdbFails
    BY <1>2, GdbFailsIInv
  <1>3. CASE GuestStep
    <2>1. CASE GuestRead
      BY <2>1, GuestReadIInv
    <2>2. CASE GuestParks \/ GuestWorks \/ GuestReturns \/ GuestWedges
      BY <2>2, GuestTurnsIInv DEF GuestParks, GuestWorks, GuestReturns, GuestWedges
    <2> QED BY <1>3, <2>1, <2>2 DEF GuestStep
  <1>4. CASE FeedOver \/ UNCHANGED vars
    <2>1. UNCHANGED vars
      BY <1>4 DEF FeedOver
    <2>2. TypeOK' /\ ControlInv' /\ StagedInv'
      BY <2>1 DEF vars, IInv, TypeOK, ControlInv, StagedInv, Refilling
    <2>3. CursorInv' /\ WindowInv'
      BY <2>1 DEF vars, IInv, CursorInv, WindowInv, Written, Cursors, Refilling, Staged
    <2>4. GuestReadsInOrder' /\ VerdictNamesTheCulprit' /\ StallsOnlyWhenServed'
      BY <2>1 DEF vars, IInv, GuestReadsInOrder, VerdictNamesTheCulprit,
                  StallsOnlyWhenServed
    <2>5. IdleInv' /\ NoBusyGuestGivenUp'
      BY <2>1 DEF vars, IInv, IdleInv, NoBusyGuestGivenUp
    <2> QED BY <2>2, <2>3, <2>4, <2>5 DEF IInv
  <1> QED BY <1>1, <1>2, <1>3, <1>4 DEF Next

(* --- Theorems ------------------------------------------------------------ *)

(* The invariant holds in every state of every run.                         *)
THEOREM Invariance == Spec => []IInv
  <1>1. Init => IInv
    BY InitIInv
  <1>2. IInv /\ [Next]_vars => IInv'
    BY NextIInv
  <1> QED BY <1>1, <1>2, PTL DEF Spec

(* Every variable keeps to its range.                                       *)
THEOREM TypeCorrect == Spec => []TypeOK
  <1>1. IInv => TypeOK
    BY DEF IInv
  <1> QED BY <1>1, Invariance, PTL

(* Whatever the sizes and however the guest and the host interleave, the    *)
(* guest consumes the blob in order, with nothing skipped or repeated.      *)
THEOREM ReadsInOrder == Spec => []GuestReadsInOrder
  <1>1. IInv => GuestReadsInOrder
    BY DEF IInv
  <1> QED BY <1>1, Invariance, PTL

(* No refill ever overruns a byte the guest has not consumed.               *)
THEOREM NothingOverrun == Spec => []UnreadIntact
  <1>1. IInv => UnreadIntact
    <2> SUFFICES ASSUME IInv, vm = "running" PROVE \A p \in gr .. gw - 1 : ring[p % RingSize] = p
      BY DEF UnreadIntact
    <2>1. phase \in {"attach", "sleep", "detached"}
      BY DEF IInv, ControlInv
    <2>2. CASE phase = "attach"
      BY <2>2 DEF IInv, StagedInv
    <2>3. CASE phase \in {"sleep", "detached"}
      <3>1. gw = wpos /\ Cursors
        BY <2>3 DEF IInv, CursorInv, Cursors, Refilling
      <3>2. Written = wpos
        BY <2>3, Ranges DEF Written
      <3> QED BY <3>1, <3>2 DEF IInv, WindowInv
    <2> QED BY <2>1, <2>2, <2>3
  <1> QED BY <1>1, Invariance, PTL

(* A blob longer than the ring is let go only when it was all consumed.     *)
THEOREM DetachSafe == Spec => []DetachOnlyWhenConsumed
  <1>1. IInv => DetachOnlyWhenConsumed
    <2> SUFFICES ASSUME IInv, phase = "detached", BlobLen > RingSize
                 PROVE  Len(taken) = BlobLen
      BY DEF DetachOnlyWhenConsumed
    <2>1. Len(taken) = gr /\ (BlobLen <= RingSize \/ gr = BlobLen)
      BY DEF IInv, CursorInv
    <2> QED BY <2>1, RingAssumption
  <1> QED BY <1>1, Invariance, PTL

(* Unless the read_pc of that round went unanswered, the verdict on a stall *)
(* never blames a lost write, and blames an empty ring only when the refill *)
(* was withheld.                                                            *)
THEOREM VerdictSound == Spec => [](VerdictNamesTheCulprit /\ StallsOnlyWhenServed)
  <1>1. IInv => VerdictNamesTheCulprit /\ StallsOnlyWhenServed
    BY DEF IInv
  <1> QED BY <1>1, Invariance, PTL

(* Before the hard cap nobody is given up who took a byte within the last   *)
(* StallRounds rounds, or who was seen executing.                           *)
THEOREM BusySpared == Spec => []NoBusyGuestGivenUp
  <1>1. IInv => NoBusyGuestGivenUp
    BY DEF IInv
  <1> QED BY <1>1, Invariance, PTL

(* The ring and the cursor cell change only while the VM is stopped.        *)
THEOREM AccessHalted == Spec => HaltedDuringAccess
  <1>1. IInv /\ [Next]_vars => [cellVars' # cellVars => vm = "stopped" /\ vm' = "stopped"]_vars
    <2> SUFFICES ASSUME IInv, Next, cellVars' # cellVars
                 PROVE  vm = "stopped" /\ vm' = "stopped"
      OBVIOUS
    <2>1. ~(GdbFails \/ GuestStep \/ FeedOver)
      BY DEF GdbFails, GuestStep, GuestRead, GuestParks, GuestWorks, GuestReturns,
             GuestWedges, GuestTurns, FeedOver, vars, cellVars
    <2>2. ~(Attach \/ Wake \/ Judge \/ \E wakes \in BOOLEAN : Resume(wakes) \/ Detach(wakes))
      BY DEF Attach, Wake, Judge, Resume, Detach, cellVars
    <2>3. Inject \/ WritePiece \/ PublishLow \/ PublishHigh
      BY <2>1, <2>2 DEF Next, HostStep
    <2>4. vm = "stopped"
      BY <2>3 DEF Inject, WritePiece, PublishLow, PublishHigh, IInv, ControlInv
    <2>5. vm' = vm
      BY <2>3 DEF Inject, WritePiece, PublishLow, PublishHigh
    <2> QED BY <2>4, <2>5
  <1> QED BY <1>1, Invariance, PTL DEF Spec, HaltedDuringAccess

(* --- Refinement ---------------------------------------------------------- *)

(* The ring feed implements the ordered feed.                               *)
THEOREM RingImplementsFeed == Spec => ImplementsFeed
  <1> USE RingAssumption
  <1>1. Init => Feed!Init
    BY DEF Init, Feed!Init, FeedStatus
  <1>2. IInv /\ IInv' /\ [Next]_vars => [Feed!Next]_(Feed!feedVars)
    <2> SUFFICES ASSUME IInv, IInv', [Next]_vars
                 PROVE  Feed!Next \/ UNCHANGED Feed!feedVars
      OBVIOUS
    <2> USE DEF Feed!feedVars, FeedStatus
    <2>1. CASE Inject
      <3>1. /\ phase = "inject" /\ phase' \in {"resume", "detach"}
            /\ wpos' = Staged /\ taken' = taken
        BY <2>1 DEF Inject
      <3>2. wpos = 0 /\ Len(taken) = 0 /\ HeadBytes <= BlobLen
        BY <3>1 DEF IInv, StagedInv, CursorInv, ControlInv
      <3>3. Staged \in 1 .. BlobLen /\ Staged <= RingSize
        BY <3>2 DEF Staged, Lesser
      <3>4. Feed!Publish
        BY <3>1, <3>2, <3>3 DEF Feed!Publish
      <3> QED BY <3>4 DEF Feed!Next
    <2>2. CASE PublishLow
      <3>1. /\ phase = "fill" /\ phase' = "publish"
            /\ wpos' = wpos + chunk /\ taken' = taken
        BY <2>2 DEF PublishLow, guestVars
      <3>2. chunk > 0 /\ Len(taken) = gr /\ Len(taken') = gr' /\ wpos' - gr' <= RingSize
        BY <3>1 DEF IInv, CursorInv
      <3>3. wpos' \in 0 .. BlobLen /\ wpos \in 0 .. BlobLen /\ chunk \in 0 .. RingSize
        BY DEF IInv, TypeOK
      <3>4. wpos' \in wpos + 1 .. BlobLen /\ wpos' - Len(taken) <= RingSize
        BY <3>1, <3>2, <3>3
      <3>5. Feed!Publish
        BY <3>1, <3>4 DEF Feed!Publish
      <3> QED BY <3>5 DEF Feed!Next
    <2>3. CASE GuestRead
      <3>1. /\ vm = "running" /\ guest = "reading" /\ gr # gw
            /\ taken' = Append(taken, ring[gr % RingSize])
            /\ wpos' = wpos /\ phase' = phase
        BY <2>3 DEF GuestRead, fillVars
      <3>2. taken \in Seq(0 .. BlobLen - 1) /\ Len(taken) = gr
        BY DEF IInv, TypeOK, CursorInv
      <3>3. taken' \in Seq(0 .. BlobLen - 1) /\ Len(taken') = gr + 1
        <4>1. gr' = gr + 1
          BY <2>3 DEF GuestRead
        <4>2. Len(taken') = gr'
          BY DEF IInv, CursorInv
        <4>3. taken' \in Seq(0 .. BlobLen - 1)
          BY DEF IInv, TypeOK
        <4> QED BY <4>1, <4>2, <4>3
      <3>4. phase # "failed" /\ gr < wpos
        <4>1. phase \in {"attach", "sleep", "detached"}
          BY <3>1 DEF IInv, ControlInv
        <4>2. phase = "attach" => gw = 0 /\ gr = 0
          BY DEF IInv, StagedInv
        <4>3. gw = wpos
          BY <3>1, <4>1, <4>2 DEF IInv, CursorInv, Cursors, Refilling
        <4> QED BY <3>1, <4>1, <4>3, Ranges
      <3>5. taken'[gr + 1] = gr
        <4>1. gr + 1 \in 1 .. Len(taken')
          BY <3>3, Ranges
        <4> QED BY <4>1, Ranges DEF IInv, GuestReadsInOrder
      <3>6. taken' = Append(taken, Len(taken))
        BY <3>1, <3>2, <3>5, Ranges
      <3>7. Feed!Take
        BY <3>1, <3>2, <3>4, <3>6 DEF Feed!Take
      <3> QED BY <3>7 DEF Feed!Next
    <2>4. ASSUME NEW wakes \in BOOLEAN, Detach(wakes)
          PROVE  Feed!Release
      <3>1. /\ phase = "detach" /\ phase' = "detached"
            /\ wpos' = wpos /\ taken' = taken
        BY <2>4 DEF Detach, fillVars
      <3>2. wpos = BlobLen /\ Len(taken) = gr /\ (BlobLen <= RingSize \/ gr = BlobLen)
        BY <3>1 DEF IInv, CursorInv
      <3> QED BY <3>1, <3>2 DEF Feed!Release
    <2>5. CASE GdbFails
      BY <2>5 DEF GdbFails, Abandon, fillVars, Feed!Abort, Feed!Next
    <2>6. CASE Attach
      BY <2>6 DEF Attach, Abandon, fillVars, Feed!Abort, Feed!Next
    <2>7. CASE Judge
      BY <2>7 DEF Judge, Abandon, fillVars, Feed!Abort, Feed!Next
    <2>8. CASE Wake \/ WritePiece \/ PublishHigh \/ \E wakes \in BOOLEAN : Resume(wakes)
      BY <2>8 DEF Wake, WritePiece, PublishHigh, Resume, guestVars, fillVars
    <2>9. CASE GuestParks \/ GuestWorks \/ GuestReturns \/ GuestWedges
      BY <2>9 DEF GuestParks, GuestWorks, GuestReturns, GuestWedges, GuestTurns, fillVars
    <2>10. CASE FeedOver \/ UNCHANGED vars
      BY <2>10 DEF FeedOver, vars
    <2> QED BY <2>1, <2>2, <2>3, <2>4, <2>5, <2>6, <2>7, <2>8, <2>9, <2>10
            DEF Next, HostStep, GuestStep, Feed!Next
  <1> QED BY <1>1, <1>2, Invariance, PTL DEF Spec, ImplementsFeed, Feed!FeedSpec
=============================================================================
