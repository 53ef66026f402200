--------------------------- MODULE RingTransport ---------------------------
(***************************************************************************)
(* The ring feed of ring_compile.py: the host half of compile_ring from the *)
(* gdb attach to the detach, and as much of the guest as it can see.        *)
(*                                                                          *)
(* The guest reads its source from a ring of RingSize bytes in its own RAM. *)
(* Two cells hold the cursors, unbounded counters masked at access.  The    *)
(* host stages the first ring-full through QEMU's loader, sets the cursors  *)
(* through the gdbstub and, for a longer blob, refills behind the guest's   *)
(* read cursor: stop the VM, read RPOS, write what there is room for,       *)
(* advance WPOS, resume, until RPOS says everything was consumed.           *)
(*                                                                          *)
(* A byte is named by its position in the blob.  The Mut... definitions are *)
(* plausible mistakes in the definition that follows each of them; the      *)
(* specification does not use them.  Time is counted in refill rounds (a    *)
(* round sleeps 0.15 s): HardCap is RING_STALL_HARD_SECS in rounds.         *)
(***************************************************************************)
EXTENDS Integers, Sequences, FiniteSets

CONSTANTS
  BlobLen,      \* len(blob)
  RingSize,     \* RING_SIZE, a power of two in the code
  HeadBytes,    \* bytes compared at attach to verify the preload (8)
  PieceMax,     \* bytes per gdb M packet (1024)
  CellBase,     \* a cursor cell is written as value % CellBase, then the rest
  StallRounds,  \* RING_STALL_ROUNDS
  HardCap,      \* RING_STALL_HARD_SECS, in rounds
  TinySet,      \* at most this many distinct PCs is a wedge (4)
  PCs,          \* program counters an executing guest can be sampled at
  HltPC,        \* where a guest waiting for input is parked
  WedgePC       \* where a wedged guest is stuck

ASSUME RingAssumption ==
  /\ BlobLen \in Nat
  /\ RingSize \in Nat \ {0}
  /\ HeadBytes \in 1 .. RingSize
  /\ PieceMax \in 1 .. RingSize
  /\ CellBase \in Nat \ {0}
  /\ StallRounds \in Nat
  /\ HardCap \in Nat
  /\ TinySet \in Nat
  /\ PCs \subseteq Nat /\ IsFiniteSet(PCs)
  /\ HltPC \in PCs /\ WedgePC \in PCs

VARIABLES
  no_refill,  \* RING_TEST_NO_REFILL, a test of the stall detector
  ring,       \* the guest's ring, each slot holding a blob position or Blank
  gw,         \* the WPOS cell, as the guest reads it
  gr,         \* the RPOS cell, which the guest advances
  taken,      \* the blob positions the guest has consumed, in order
  guest,      \* what the guest is doing
  vm,         \* "running" or "stopped" (gdb holds the VM)
  phase,      \* where compile_ring is
  wpos,       \* the host's wpos
  rpos,       \* the RPOS the host read this round
  chunk,      \* bytes this refill writes
  off,        \* bytes of it written so far
  last_rpos, stalled, stall_pcs,   \* the stall detector
  verdict,    \* why the feed was abandoned
  idle,       \* history: rounds ended since the guest last took a byte, up
              \* to IdleMost
  misread     \* history: the verdict was reached on a late answer

guestVars == <<gr, taken, guest>>
cellVars  == <<ring, gw>>
fillVars  == <<wpos, rpos, chunk, off>>
stallVars == <<last_rpos, stalled, stall_pcs, idle>>
endVars   == <<verdict, misread>>
vars == <<no_refill, ring, gw, gr, taken, guest, vm, phase, wpos, rpos, chunk, off,
          last_rpos, stalled, stall_pcs, verdict, idle, misread>>

Blank == -1
Slots == 0 .. RingSize - 1
Lesser(a, b) == IF a <= b THEN a ELSE b

Staged == Lesser(BlobLen, RingSize)

(* The loader device put the staged bytes in the ring, or it put nothing.   *)
Preload(loaded) ==
  [s \in Slots |-> IF loaded /\ s < Staged THEN s ELSE Blank]

Init ==
  /\ no_refill \in BOOLEAN
  /\ \E loaded \in BOOLEAN : ring = Preload(loaded)
  /\ gw = 0 /\ gr = 0 /\ taken = <<>>
  /\ guest \in {"reading", "parked"}
  /\ vm = "running"
  /\ phase = "attach"
  /\ wpos = 0 /\ rpos = 0 /\ chunk = 0 /\ off = 0
  /\ last_rpos = -1 /\ stalled = 0 /\ stall_pcs = {}
  /\ verdict = "none"
  /\ idle = 0 /\ misread = FALSE

-----------------------------------------------------------------------------
(* Leaving compile_ring by an exception: `finally` kills QEMU.              *)
Abandon(why) ==
  /\ phase' = "failed"
  /\ verdict' = why
  /\ guest' = "dead"
  /\ vm' = "stopped"

(* gdb's continue and detach both resume the VM.  A guest parked in hlt     *)
(* takes that as its wake, or sleeps through it.                            *)
ResumeVM(wakes) ==
  /\ vm' = "running"
  /\ guest' = IF guest = "parked" /\ wakes THEN "reading" ELSE guest

(* gdb has the VM: a connection stops it, and so does an interrupt.         *)
MutInterruptLost == UNCHANGED vm
Interrupt == vm' = "stopped"

(* The head of the ring, read back, equals the blob's (a blob shorter than  *)
(* the head that is read never does).                                       *)
HeadVerified ==
  HeadBytes <= BlobLen /\ \A s \in 0 .. HeadBytes - 1 : ring[s] = s

Attach ==
  /\ phase = "attach"
  /\ IF HeadVerified
       THEN phase' = "inject" /\ Interrupt /\ UNCHANGED <<guest, verdict>>
       ELSE Abandon("preload mismatch")
  /\ UNCHANGED <<no_refill, ring, gw, gr, taken, fillVars, stallVars, misread>>

Inject ==
  /\ phase = "inject"
  /\ wpos' = Staged
  /\ gw' = Staged
  /\ gr' = 0
  /\ phase' = IF Staged < BlobLen THEN "resume" ELSE "detach"
  /\ UNCHANGED <<no_refill, ring, taken, guest, vm, rpos, chunk, off, stallVars, endVars>>

Resume(wakes) ==
  /\ phase = "resume"
  /\ ResumeVM(wakes)
  /\ phase' = "sleep"
  /\ UNCHANGED <<no_refill, cellVars, gr, taken, fillVars, stallVars, endVars>>

MutRoomOverByOne == RingSize - (wpos - gr) + 1
Room == RingSize - (wpos - gr)

(* What one refill sends: blob[wpos : wpos + room], clipped at the blob's   *)
(* end.                                                                     *)
RefillLen == Lesser(Room, BlobLen - wpos)

(* The loop's exit: the guest has consumed everything.                      *)
MutDelivered == wpos >= BlobLen
Consumed == gr >= BlobLen

(* After the sleep: interrupt, read RPOS, and leave, refill or judge.       *)
Wake ==
  /\ phase = "sleep"
  /\ Interrupt
  /\ rpos' = gr
  /\ IF Consumed
       THEN phase' = "detach" /\ UNCHANGED <<chunk, off>>
       ELSE IF Room > 0 /\ wpos < BlobLen /\ ~no_refill
              THEN /\ phase' = "fill"
                   /\ chunk' = RefillLen
                   /\ off' = 0
              ELSE phase' = "judge" /\ UNCHANGED <<chunk, off>>
  /\ UNCHANGED <<no_refill, cellVars, guestVars, wpos, stallVars, endVars>>

(* The ring after writing the blob's positions base .. base + piece - 1, in  *)
(* two packets where they run over the ring's end.                          *)
MutUnsplitWrite(base, piece) ==
  LET pos == base % RingSize
  IN [s \in Slots |-> IF pos <= s /\ s < pos + piece THEN base + (s - pos)
                      ELSE ring[s]]
SplitWrite(base, piece) ==
  LET pos  == base % RingSize
      head == Lesser(piece, RingSize - pos)
  IN [s \in Slots |-> IF pos <= s /\ s < pos + head THEN base + (s - pos)
                      ELSE IF s < piece - head THEN base + head + s
                      ELSE ring[s]]

WritePiece ==
  LET piece == Lesser(PieceMax, chunk - off)
  IN /\ phase = "fill"
     /\ off < chunk
     /\ ring' = SplitWrite(wpos + off, piece)
     /\ off' = off + piece
     /\ UNCHANGED <<no_refill, gw, guestVars, vm, phase, wpos, rpos, chunk, stallVars, endVars>>

(* The gdbstub writes the WPOS cell byte-wise: between the two halves the   *)
(* cell holds a value that was never any cursor.                            *)
PublishLow ==
  /\ phase = "fill"
  /\ off = chunk
  /\ wpos' = wpos + chunk
  /\ gw' = (gw - (gw % CellBase)) + ((wpos + chunk) % CellBase)
  /\ phase' = "publish"
  /\ UNCHANGED <<no_refill, ring, guestVars, vm, rpos, chunk, off, stallVars, endVars>>

PublishHigh ==
  /\ phase = "publish"
  /\ gw' = wpos
  /\ phase' = "judge"
  /\ UNCHANGED <<no_refill, ring, guestVars, vm, fillVars, stallVars, endVars>>

(* Where the guest's program counter can be.                                *)
Executing ==
  CASE guest = "parked" -> {HltPC}
    [] guest = "wedged" -> {WedgePC}
    [] OTHER            -> PCs

(* What one read_pc can return: nothing when the stub refuses, and nothing   *)
(* when its answer does not come in time, for read_pc swallows that too.     *)
PCSamples == {{}} \cup {{p} : p \in Executing}

(* The cursors the verdict is reached on.  After a read_pc that went         *)
(* unanswered the next packet is its late answer, taken for WPOS; the packet *)
(* read for RPOS is then the answer about WPOS, or, when that one was        *)
(* dropped with the late one, its own.                                       *)
SeenCursors(late) == IF late THEN Executing \X {gw, gr} ELSE {<<gw, gr>>}

MutBlamesGuest(w, r) ==
  IF w # wpos THEN "write lost"
  ELSE IF w >= r THEN "data is waiting"
  ELSE "ring is empty"
Culprit(w, r) ==
  IF w # wpos THEN "write lost"
  ELSE IF w > r THEN "data is waiting"
  ELSE "ring is empty"

(* What the verdict can say: a read that raises leaves it without cursors.   *)
Verdicts(late) ==
  {"cursors unreadable"} \cup {Culprit(c[1], c[2]) : c \in SeenCursors(late)}

(* The rounds the read cursor has stood still.                              *)
MutNeverReset == IF rpos # last_rpos THEN stalled ELSE stalled + 1
MutSaturates == IF rpos # last_rpos THEN 0 ELSE Lesser(stalled + 1, StallRounds)
FrozenRounds == IF rpos # last_rpos THEN 0 ELSE stalled + 1

(* Still executing, and the hard cap has not passed.                        *)
Spared(pcs, rounds) == Cardinality(pcs) > TinySet /\ rounds < HardCap

(* A bound on the history: past both limits more idle rounds say nothing.   *)
IdleMost == StallRounds + HardCap + 1

(* The end of a round: count it as progress or as a stall, and give up on   *)
(* a stall that is too long.                                                *)
Judge ==
  /\ phase = "judge"
  /\ last_rpos' = rpos
  /\ stalled' = FrozenRounds
  /\ idle' = Lesser(idle + 1, IdleMost)
  /\ \E sample \in PCSamples, late \in BOOLEAN :
       /\ late => sample = {}
       /\ stall_pcs' = IF rpos # last_rpos THEN {} ELSE stall_pcs \cup sample
       /\ IF stalled' > StallRounds /\ ~Spared(stall_pcs', stalled')
            THEN misread' = late /\ \E why \in Verdicts(late) : Abandon(why)
            ELSE phase' = "resume" /\ UNCHANGED <<guest, vm, endVars>>
  /\ UNCHANGED <<no_refill, cellVars, gr, taken, fillVars>>

(* A detach that fails is passed over, and may leave the VM stopped.        *)
Detach(wakes) ==
  /\ phase = "detach"
  /\ ResumeVM(wakes) \/ UNCHANGED <<vm, guest>>
  /\ phase' = "detached"
  /\ UNCHANGED <<no_refill, cellVars, gr, taken, fillVars, stallVars, endVars>>

(* Any gdb command may fail; the exception leaves through `finally`.        *)
GdbFails ==
  /\ phase \notin {"detach", "detached", "failed"}
  /\ Abandon("gdb")
  /\ UNCHANGED <<no_refill, cellVars, gr, taken, fillVars, stallVars, misread>>

-----------------------------------------------------------------------------
(* The guest, which runs only while the VM does.                            *)

(* The serial read: take the byte under the read cursor.                    *)
GuestRead ==
  /\ vm = "running" /\ guest = "reading"
  /\ gr # gw
  /\ taken' = Append(taken, ring[gr % RingSize])
  /\ gr' = gr + 1
  /\ idle' = 0
  /\ UNCHANGED <<no_refill, cellVars, guest, vm, phase, fillVars,
                 last_rpos, stalled, stall_pcs, endVars>>

(* Finding the ring dry it parks in hlt; between reads it computes; and it  *)
(* may be broken and wedge.                                                 *)
GuestTurns(from, to) ==
  /\ vm = "running" /\ guest = from
  /\ guest' = to
  /\ UNCHANGED <<no_refill, cellVars, gr, taken, vm, phase, fillVars, stallVars, endVars>>

GuestParks   == gr = gw /\ GuestTurns("reading", "parked")
GuestWorks   == GuestTurns("reading", "busy")
GuestReturns == GuestTurns("busy", "reading")
GuestWedges  == GuestTurns("busy", "wedged")

GuestStep ==
  GuestRead \/ GuestParks \/ GuestWorks \/ GuestReturns \/ GuestWedges

HostStep ==
  \/ Attach \/ Inject \/ Wake \/ WritePiece \/ PublishLow \/ PublishHigh
  \/ Judge
  \/ \E wakes \in BOOLEAN : Resume(wakes) \/ Detach(wakes)

(* The feed is over; what the guest does next is not the feed's business.   *)
FeedOver == phase \in {"detached", "failed"} /\ UNCHANGED vars

Next == HostStep \/ GdbFails \/ GuestStep \/ FeedOver

Spec == Init /\ [][Next]_vars

(* compile_ring is a single thread that never waits for the guest: its next *)
(* statement always runs.  Nothing is assumed of the guest.                 *)
FairSpec == Spec /\ WF_vars(HostStep)
-----------------------------------------------------------------------------
(* Every variable keeps to its range.                                       *)
TypeOK ==
  /\ no_refill \in BOOLEAN
  /\ ring \in [Slots -> 0 .. BlobLen - 1 \cup {Blank}]
  /\ gw \in Nat /\ gr \in Nat
  /\ taken \in Seq(0 .. BlobLen - 1)
  /\ guest \in {"reading", "parked", "busy", "wedged", "dead"}
  /\ vm \in {"running", "stopped"}
  /\ phase \in {"attach", "inject", "resume", "sleep", "fill", "publish",
                "judge", "detach", "detached", "failed"}
  /\ wpos \in 0 .. BlobLen /\ rpos \in 0 .. BlobLen
  /\ chunk \in 0 .. RingSize /\ off \in 0 .. chunk
  /\ last_rpos \in -1 .. BlobLen
  /\ stalled \in Nat
  /\ stall_pcs \subseteq PCs
  /\ idle \in Nat /\ misread \in BOOLEAN
  /\ verdict \in {"none", "preload mismatch", "gdb", "write lost",
                  "data is waiting", "ring is empty", "cursors unreadable"}

(* The guest consumes the blob from its first byte on, in order, nothing    *)
(* twice and nothing skipped: the promise of masking two unbounded cursors. *)
GuestReadsInOrder == \A i \in 1 .. Len(taken) : taken[i] = i - 1

(* While the guest may read, every byte between the cursors is the blob's:  *)
(* no refill overran data the guest had not consumed, whatever the wrap.    *)
UnreadIntact ==
  vm = "running" => \A p \in gr .. gw - 1 : ring[p % RingSize] = p

(* A blob larger than the ring is let go only when all of it was CONSUMED:  *)
(* delivered is not enough, for nobody would wake the guest any more.       *)
DetachOnlyWhenConsumed ==
  phase = "detached" /\ BlobLen > RingSize => Len(taken) = BlobLen

(* The verdict on a stall blames the right party: a write is never lost, an *)
(* empty ring is only ever the test's withheld refill, and data is said to  *)
(* be waiting only when the guest was left unread bytes.  Except where the  *)
(* read_pc of that round went unanswered: its late answer is then taken for *)
(* the guest's WPOS (GdbStub shows the packets).                            *)
VerdictNamesTheCulprit ==
  ~misread =>
    /\ verdict # "write lost"
    /\ verdict = "ring is empty" => no_refill /\ Len(taken) = RingSize
    /\ verdict = "data is waiting" => Len(taken) < wpos

(* A round is counted as a stall only against a guest that already had all  *)
(* the ring can hold or all there is; a starved guest is not blamed.        *)
StallVerdicts ==
  {"write lost", "data is waiting", "ring is empty", "cursors unreadable"}
StallsOnlyWhenServed ==
  /\ stalled > 0 /\ ~no_refill
  /\ phase \in {"resume", "sleep"} \/ verdict \in StallVerdicts
  => wpos = Lesser(BlobLen, last_rpos + RingSize)

(* The detector ends no feed to a guest that is only busy: before the hard  *)
(* cap it gives up only on a guest that took no byte for more than          *)
(* StallRounds rounds and was seen at no more than TinySet addresses.       *)
NoBusyGuestGivenUp ==
  verdict \in StallVerdicts =>
    /\ idle > StallRounds
    /\ idle < HardCap => Cardinality(stall_pcs) <= TinySet

(* The host touches the ring and the cursor cell only with the VM stopped.  *)
HaltedDuringAccess ==
  [][cellVars' # cellVars => vm = "stopped" /\ vm' = "stopped"]_vars

(* The feed always ends, detached or abandoned, whatever the guest does.    *)
FeedEnds == <>(phase \in {"detached", "failed"})
-----------------------------------------------------------------------------
(* The inductive invariant behind the safety properties.                    *)

Refilling == phase \in {"resume", "sleep", "fill", "publish", "judge"}
Cursors   == Refilling \/ phase \in {"detach", "detached"}

(* The host's own bookkeeping: while gdb is at work the VM is stopped, and  *)
(* a killed QEMU has no guest.                                              *)
ControlInv ==
  /\ phase \notin {"attach", "sleep", "detached"} => vm = "stopped"
  /\ phase = "failed" => guest = "dead"
  /\ phase = "failed" <=> verdict # "none"
  /\ Refilling => BlobLen > RingSize
  /\ phase \notin {"attach", "failed"} => HeadBytes <= BlobLen

(* Before the cursors are set: an untouched guest.                          *)
StagedInv ==
  /\ phase \in {"attach", "inject"} =>
        /\ gw = 0 /\ gr = 0 /\ wpos = 0 /\ stalled = 0 /\ last_rpos = -1
        /\ ring = Preload(TRUE) \/ ring = Preload(FALSE)
  /\ phase = "inject" => ring = Preload(TRUE)

(* Where the cursors stand relative to each other.                          *)
CursorInv ==
  /\ Len(taken) = gr
  /\ gr <= wpos
  /\ wpos - gr <= RingSize
  /\ Cursors => Staged <= wpos
  /\ Cursors /\ phase # "publish" => gw = wpos
  /\ phase \in {"fill", "publish", "judge"} => rpos = gr /\ gr < BlobLen
  /\ phase = "fill" =>
        /\ chunk = Lesser(RingSize - (wpos - gr), BlobLen - wpos)
        /\ chunk > 0
        /\ ~no_refill
  /\ phase \in {"publish", "judge"} /\ ~no_refill =>
        wpos = Lesser(BlobLen, rpos + RingSize)
  /\ phase \in {"detach", "detached"} =>
        wpos = BlobLen /\ (BlobLen <= RingSize \/ gr = BlobLen)
  /\ no_refill /\ Cursors => wpos = Staged

(* How much of the window is written.                                       *)
Written == wpos + (IF phase = "fill" THEN off ELSE 0)

(* Everything from the read cursor to what is written is the blob's.        *)
WindowInv ==
  Cursors => \A p \in gr .. Written - 1 : ring[p % RingSize] = p

(* The stall detector's count against the rounds the guest was idle.        *)
IdleInv ==
  /\ last_rpos <= gr
  /\ gr = last_rpos => stalled <= idle \/ idle = IdleMost

IInv ==
  /\ TypeOK /\ ControlInv /\ StagedInv /\ CursorInv /\ WindowInv
  /\ GuestReadsInOrder /\ VerdictNamesTheCulprit /\ StallsOnlyWhenServed
  /\ IdleInv /\ NoBusyGuestGivenUp
-----------------------------------------------------------------------------
(* The ring implements the ordered feed: a byte is published when the host  *)
(* counts it into wpos.                                                     *)
FeedStatus ==
  IF phase = "detached" THEN "released"
  ELSE IF phase = "failed" THEN "aborted"
  ELSE "feeding"

Feed == INSTANCE OrderedFeed
          WITH Window <- RingSize, published <- wpos, status <- FeedStatus

(* Every behaviour of the ring feed is one of the ordered feed.             *)
ImplementsFeed == Feed!FeedSpec
=============================================================================
