# A verification project for cobblestone-qemu

`cobblestone-qemu` builds the tools of the Codex compiler by running the
compiler's own binary, the *seed*, as a guest under QEMU. Python drivers feed a
source to the guest and capture what it prints; shell scripts string those
drivers into a build; a handful of verifiers check that one small program, fib,
comes out right along each of four routes.

The repository is small, and most of what can go wrong in it cannot be reached
by running it: a ring buffer that wraps only for blobs over a megabyte, a stall
detector whose branch is dead code in a healthy build, a capture that can be cut
at any byte, kills between the writes of two files that must agree. This
directory holds TLA+ models of those parts, the TLC runs that check them, and
TLAPS proofs about most of them.

Paths below are relative to the repository (`src/`).

## 1. Inventory

### Ring transport: `ring_compile.py`, `compile_ring`

*State.* In the guest: a ring of `RING_SIZE` bytes and two cells, WPOS and RPOS,
unbounded counters masked at access. In the host: `wpos`, the stall detector
(`last_rpos`, `stalled`, `stall_pcs`, the wall clock of the last progress), and
whether gdb holds the VM. *Operations.* Stage the first ring-full through QEMU's
loader device; attach through gdb and read the ring's head back; set the
cursors; then, for a longer blob, loop: continue, sleep 0.15 s, interrupt, read
RPOS, refill the room there is (split at the ring's end, packets of at most 1024
bytes), advance WPOS, judge whether the guest stalls; detach when the guest has
*consumed* all of it. *Interacts* with the guest through shared memory and with
QEMU's gdbstub by packets; either may die. *Hard:* wrap-around, the cell that the
stub writes byte by byte, `hlt` and the wake it waits for, a detector that must
tell a wedged guest from a busy one and name the party at fault. *Correct when*
the guest reads the blob in order and none of it is overwritten unread; the host
touches memory only with the VM stopped; it lets go only when nothing depends on
it any more; it always ends, and not while the guest is only busy; its verdict names the right
culprit.

### The gdb client: `ring_compile.py`, `class Gdb`

*State.* One socket; in a call, the bytes received so far; in QEMU's stub, the
commands not yet served and whether the VM runs. *Operations.* Connect and drain;
send a packet, take the ack, read up to the reply; continue without waiting;
interrupt and read up to the stop packet; read a program counter, forgiving a
failure; detach. *Hard:* acks, replies and stop packets share one stream that is cut
anywhere; no reply says which command it answers; a call that gave up leaves its
answer in the stream; what follows a reply in the same piece is lost. *Correct when*
the feed goes by no reply but its own, memory is touched only with the VM stopped,
and every call returns.

### Output capture: `compile_ring`'s second half, `codex_vm.compile_blob`

*State.* `out` (bytes so far), `needed` (where the capture may stop), the deadline;
then the files: the artifact, `.diags`, `.map`. *Operations.* Receive, time out,
end of stream, parse, write. Two framings: `SIZE:<n>` followed by n bytes and a
trailer, or a stream that ends in a sentinel. *Hard:* the stream is cut into
chunks anywhere, QEMU or the driver may die at any moment, files of an earlier run
stand at the same paths. *Correct when* success means the whole payload is in the
file, failure means the guest failed (or time ran out), no diagnostic is lost, and
no artifact stands beside an earlier run's evidence.

### Guest session: `codex_vm.launch`, `wait_ready`, the drivers' clean-up

*State.* One QEMU process per driver, two TCP ports, two sockets. *Operations.*
Pick free ports, spawn, connect to each port in turn (120 tries, 0.25 s apart), wait
for READY, serve, kill. *Hard:* ports are picked long before they are bound;
another driver may take them; QEMU may die at any point; a half-connected guest
blocks for ever with its RAM. *Correct when* a driver is served by its own guest,
leaves none behind, and does not wait for ever.

### Running a program for its output: `codex_vm.run_cdx`, `recv_all`

*State.* The buffer, the silence since the last byte, the deadline, whether the
guest faulted. *Hard:* silence, end of stream, deadline and socket error all end
the same read; a faulted guest keeps its socket open. *Correct when* what is banked
as a truth is all of it, an error is never banked, and a fault is not waited on.

### Sandbox build: `build.sh`, `lib.sh`, `plug_run_ring.py`, `run_all.py`

*State.* Files: PROVENANCE, `ringplug.cdx` and `ringplug.cdx.fp`, the native tools,
RESULT, beside a checkout that is live. *Operations.* Cut or reuse a sandbox;
rebuild the plug if its source bundle changed; for each subject bundle, assemble,
compile, transpile, link; check; record. *Hard:* every step may fail or be killed,
`set -e` is off where a function is called in a condition, the checkout is edited
or moves between and during steps. *Correct when* a sandbox is of one commit, exit 0
means all that was asked for was built, no stale plug is ever booted, RESULT
attributes its verdict to the right commit.

### Fib verifiers: `fib_checkers/`

*State.* The sandboxes, in each the work files of every route and the runner
`f3_run`. *Hard:* exit statuses that are not looked at, files of earlier
verifications, a runner kept across edits and failed builds. *Correct when* a PASS
is owed to nothing but this verification.

### The emitted dump: `subjects/emit_harness.py`, `common.sections`, `f3_run.zig`

*State.* One text, written by the harness in the guest, carved by one reader and
parsed by another. *Hard:* two hand-written parsers of one format, dumps that carry
diagnostics or errors, dumps cut anywhere. *Correct when* what is booted is what
was emitted, and nothing cut short is called.

### The generated harness: `subjects/emit_harness.py`

*State.* In the guest: the heap frontier (the *bivy*), the *deck* cursor and the
published top of its reservation, a base for each reservation. *Operations.* Generate
the chapter, after counting the parameters of `check-chapter`; then, as the chapter
runs, a let-chain of reservations and phase calls, each phase allocating on the deck
or the bivy; seal before emission; print the dump; give the arena back; next subject.
*Hard:* nothing is freed and nothing is checked but by guards that read a
reservation's top, so a forgotten reservation, a call outside its extent or a stale
top corrupts a phase far from the mistake, or stops it with room to spare. *Correct
when* no phase writes over what a later one reads, an alarm is real, and every
subject starts on the heap the first one had.

### The rest

| part | why it matters here |
|---|---|
| `wgsl/regen.sh`, `check.sh` | make kernels with the build's functions in a sandbox that may be shared; modelled as a command on it |
| `cce.py` | a constant table and a lookup in it; words one remark on a verdict already reached; left out |
| `zig_plug_pages.py` | one pass over page footers, which nothing in the repository calls any more; left out |
| `assemble_unit.ps1`, `bundle_*.ps1` | steps that read the checkout and may fail; the resolution of chapters is upstream's |
| `roots.py`, `wgsl/serve.sh`, the `.codex` drivers | no state of their own; left out |
| `gen_codexir_harness.py` | a chapter that calls upstream's own driver; the chain of phases is not written here; left out |

## 2. Plan

The order follows what is hardest to test and worst when wrong.

1. `OrderedFeed`, `RingTransport`: the abstract feed and the ring, with a
   refinement and an inductive invariant, proved. **Done.**
2. `OutputCapture`, `GuestSession`, `TruthCapture`: the other halves of a guest run.
   **Done.**
3. `SandboxBuild`, `FibCheckers`: what a build and a verdict claim. **Done.**
4. `DumpFormat`: one text, two readers. **Done.**
5. `GdbStub`: the packet protocol under `RingTransport`'s "a gdb command worked or
   failed". **Done.** The verdict on a stall is the one place where a
   command may seem to work and did not (`gdb_verdict`).
6. `HarnessDecks`: the generated chapter, its reservations and the arity check.
   **Done.** The two pure readers planned with it, `cce.py` and
   `zig_plug_pages.py`, were dropped: neither decides anything here.
7. `wgsl/regen.sh`: shares plug freshness and PROVENANCE with `SandboxBuild`, so it is
   the command `Regen` there and no module of its own. **Done.**
8. Proofs. **Done:** every safety property and every action property the passing runs
   check, and the refinement. Liveness is left to TLC.

New runs take the place of runs whose question is answered by a proof, so that
the set stays one a reader can take in.

## 3. Modules

A `Mut...` definition is a plausible mistake in the definition that follows it,
which no specification uses; putting it in that definition's place must break the
property it is paired with in `PROJECT.json`. An MC module gives a component its
instance for TLC.

A component's theorems are in its `...Proofs` module.

### `RingTransport` (and `OrderedFeed`)

A byte is named by its position in the blob, so "in order" is `taken[i] = i - 1`.

| TLA+ | code |
|---|---|
| `gw`, `gr` | the WPOS and RPOS cells; `wpos`, `rpos` are the host's copies |
| `Preload`, `Attach`, `Inject` | loader device; head compared; cursors set |
| `Resume`, `Wake`, `WritePiece`, `PublishLow`, `PublishHigh`, `Judge` | one round of the refill loop, cut where the guest could look |
| `SplitWrite` | the split at the ring's end, in packets of `PieceMax` |
| `PCSamples`, `Spared`, `FrozenRounds` | the stall detector |
| `SeenCursors`, `Culprit`, `Verdicts` | its verdict, on the cells as the two reads return them |
| `Detach`, `Abandon`, `GdbFails` | the ways out; a `D` that fails is passed over and may leave the VM stopped |
| `GuestRead`, `GuestParks`, `GuestWorks`, `GuestWedges` | the guest's serial read; external |

`HardCap` stands for `RING_STALL_HARD_SECS` counted in rounds; the code reads the
wall clock. `no_refill` is the environment variable `RING_TEST_NO_REFILL`. The
guest may miss the wake of any one resume (`wakes`); when the blob fits the ring
there is only the one at the detach, and what the guest makes of it is beyond the
feed.

In `Judge` the round's `read_pc` may time out (`late`). The reads of the verdict then may
take its answer for the write cursor, as run `gdb_verdict` shows; `SeenCursors(late)` is any
such pair, and the history variable `misread` records that a verdict was reached so.
`VerdictNamesTheCulprit` is about the others. `idle`, a history variable, counts the
rounds since the guest last took a byte, up to `IdleMost`, past which more of them make
no difference; against it `NoBusyGuestGivenUp` holds what the detector counts for itself.

`OrderedFeed` is the promise without the ring: bytes are published in order, at
most a window of them unread, and the feeder releases the guest only when it needs
no more. `RingTransport!ImplementsFeed` maps `published` to `wpos` and `status` to
the phase.

### `GdbStub`

The socket's stream is `wire`, a sequence of tokens: `$`, a body, `#`, a checksum, and
the ack `+`. A body carries the number of the packet it answers, which the client
cannot see, and its kind (`hex`, `OK`, `E`, `stop`), which it can.

| TLA+ | code |
|---|---|
| `at`, `After` | the call `compile_ring` is at, and those it may make next |
| `Drain` | `__init__`, until a silence of 0.8 s |
| `Send`, `waiting`, `buf` | `sendall`, and the loop on `recv` behind it |
| `Recv` | any piece of `wire`; `HashSeen`, `Index`, `Reply` cut the reply out, `Accepts` is the check on it |
| `RecvOne` | `cont_nowait`, which takes one byte for the ack |
| `NothingCame` | `socket.timeout`, or the end of the stream |
| `Raise` | the exception: out of `compile_ring`, but for `read_pc` and `detach` |
| `Serve`, `Greets`, `Dies` | QEMU's stub; external |

The two reads of the verdict (`see wpos`, `see rpos`) are the calls after a `sample`.
`MaxSent` bounds the packets after which no new round is begun.

### `OutputCapture`

What a guest will print is a script of tokens; what is received is a prefix of any
length, so every chunking is covered. `Needed`, `BadHeader`, `Recv`, `Quiet`,
`Eof`, `Deadline` are the loop; `WriteDiags`, `WriteBinary`, `WriteMap`,
`WriteStream` the writes in the code's order, with `HostKilled` between any two. A
file is stale (an earlier run's), absent or fresh. A silence is `Quiet`: guests that
print on do not fall silent longer than the two seconds the code gives them, except
at the deadline. `compile_blob` runs the same loop and writes only the artifact.

What guests print is two constants. `FramedAssumption` is
what the code takes for granted of a compiler that frames its output (the parse at
`ring_compile.py:455-520` looks at nothing else): one that announces a SIZE
has not given up and has said its diagnostics; what follows the header is the bytes it
announced, or as many as it got to, and after them the trailer. Of streamed texts nothing is
assumed: one may read like the
other mode's framing (`ReadsAsFramed`), which the loop takes for it
(`ring_compile.py:446`), and `FailureIsTheGuests` exempts exactly those texts.

### `GuestSession`

The specification is `SessionSpec`, with fairness `FairSession`: one module of proofs
(`CodexVmProofs`) extends this one and `TruthCapture`, the two halves of `codex_vm.py`.
`pc`, `qemu` and `bound` are a driver, its QEMU and the owner of each port. QEMU's
two chardevs with `wait=on` are the states `starting` to `booting`. `careful` is the
rule of the comment in `launch`, that nobody starts two drivers at once; it is
chosen once, so both worlds are looked at. A `^C` may come wherever a handler is in
force; the two points where none is (between `Popen` and the `try`, and between
`launch`'s return and the caller's `try`) are left out. `compile_ring` takes a third port,
for QEMU's gdbstub, which is no part of this module: no socket of the session waits for
it, and a driver that cannot reach it leaves as it does for any gdb failure.

### `TruthCapture`

Time is ticks; a program prints its next token before `MaxGap` ticks have passed,
`MaxGap < IdleTimeout`, which is what the caller's choice of `idle_timeout` says of
its program. `Tick` passes only when nothing is due. `died` records that QEMU went down
under the program; no action but `Die` looks at it.

### `SandboxBuild`

A tree is a content of the checkout, with a commit and a plug-bundle fingerprint
that it may share with others; an artifact is the set of trees read to make it. The
steps are those of `ring_plug_fresh`, `build_one` and `run_all.main`; `Exit` is
`set -e` or a `return 1` that is looked at, and `Ignored` is the one place where it
is not (`ring_plug_fresh || true` for x86emit). `lapse` is a history variable: a kill
or a full disk has left a plug beside a fingerprint that is not its own. It is
never read by an action; `NoStalePlug` is stated while there is no lapse, and
`MatchMeansCompiled` without that condition. The fingerprint does not cover the
chapters that are resolved ahead of the bundle, in the code or here. `Regen` and `Stamp`
are `wgsl/regen.sh`: it reads the checkout's commit, looks for its targets, and stamps
whatever sandbox it is given, without a look at the PROVENANCE there.

The checkout changes at any moment, `MaxMoves` times under commands. Two history
variables say what went on: `moved`, whether the commit changed between `run_all.py`'s
look at it and `build.sh`'s ("launch") or from there to the end of the build ("build");
and `restamped`, whether `regen.sh` changed the stamp of a sandbox in use.
`OneSandboxOneCommit` and `ResultNamesItsTree` name the ones that break them. Each is a
real way to mix a sandbox: without the exemption TLC finds it. What the properties show
is that nothing else does, in particular no kill, refusal, reuse or failure, and no
change of the checkout at any other moment.

### `FibCheckers`

A work file is absent, partial, right or wrong, and of this verification or an
earlier one. `Tool` has the two ways the routes differ. No route looks at the exit
status of a tool (`verify_fib_with_zig.py:35,39`, `verify_fib_with_qemu.py:47-53`): each goes
on when there is something in the file. But the native tools' outputs are opened for
writing first, so nothing earlier is left there, and the guests' drivers write theirs in the
end, if at all. The statuses of the assembly (`AssemblyFails`) and of `zig build-exe`
(`Link`, `Runner`) are looked at. The routes share no file, so a behaviour follows one route.
The checkout is no part of the state: on the routes of `NeedsCheckout`, `Need` may refuse
at any time.

### `DumpFormat`

A dump is a sequence of lines by what the readers tell apart; a cut is a prefix of
the lines whose last line may be cut anywhere, a decimal number down to its first
digits. Its sections are sequences of bytes, of any length. `HeadLine`, `HeadEnds`, `Carve`,
`Finish` are `common.dump_body` and
`common.sections`, one line or section at a time; `F3Parses` is `f3_run.zig`'s parser.
Python's exception on a line that is no `key value` pair is `Refuse`, as is `fail`:
either way nothing is booted.

### `HarnessDecks`

An object is the set of cells it occupies. `live` has the cells a later phase reads, and
`lost` those of them that were allocated once more.

| TLA+ | code |
|---|---|
| `Plan` | the let-chain that `frontend_source` and `pipeline_source` write, one step an element |
| `StartSubject` | `deck_prologue`: `init-phase-allocator` and a region of `demand-lift-floor`; `harness_source` passes no `deck_bytes` |
| `Build`, `DeckSet`, `Compact`, `EmitBuild`, `Release` | `build`, `__deck-set`, `phase-compact`, `emit-build`, the restore after the dump |
| `Wrapped` | which phase calls the text wraps in `deck-record` |
| `Unwrapped`, `Check`, `Lower`, `ScratchBack`, `Walk`, `Emit` | the phases, an object at a time; external, by what the generator's comments say of them |
| `Copied`, `Full` | a result copied into the keep built for the phase, and the keep used up |
| `Spent`, `Trap` | the guard of an extent, armed with the top that was published last |
| `Short`, `CutShort` | the ceiling of a walk, and its stopping there with what it has |
| `Unwatched`, `End`, `spilled` | the two ends no guard watches, and the cells allocated beyond them |
| `Arity`, `Generate` | `require_arity`, on the tokens of a declaration |
| `HandOn` | the lifted IR that `frontend_source(lift=True)` ends in |

The checker copies each result into its keep or leaves it on the deck, with scratch on the
bivy that it takes back. Lowering makes each definition on its scratch deck and copies what it
keeps, may start the scratch over, and stops at `lower-ceiling` or at the end of its keep.
Emission has the bivy for each function's scratch.

Two reservations have an end nobody watches. The prologue's publishes no top, and what a
subject puts on the deck before the first `build` may overrun it: the corruption recorded at
`emit_harness.py:89-92`. And `emit-build` publishes none, so emission is guarded by
the end of the lift's reservation, which is below or above its own according to the two heights.
Nothing is assumed of either height: the cells beyond are `spilled`, `NothingOverwritten`
exempts those and no other, and the run has both ends overrun.

`frontend_source(lift=True)` has no caller in this repository; its chain is checked as it is
written. The compiler's allocator and phases are external, and so marked in the map.

`spare` is what a reservation still had when it was said to be used up. `takes` is
what `check-chapter` really takes, for `StartsAfresh` to compare with what was counted.

## 4. Runs

| run | instance | shows |
|---|---|---|
| `ring` | blob 9, ring 4, packets of 3, cell base 4, stall after 1 round, cap 3 | order, window, halted access, detach, verdicts, a busy guest spared, termination, refinement, the inductive invariant |
| `gdb` | at most 16 packets begun; every cut, delay, refusal and death | replies, halted access, every call ends |
| `capture` | six framed scripts, seven streamed, three of which quote the other framing | all chunkings, deaths, kills and deadlines |
| `session` | 2 drivers, 3 ports, 2 tries | alone and racing |
| `truth` | five programs; gap 3 < idle 4, fault idle 1, overall 9 | healthy, faulting, too long and dying programs |
| `build` | 3 trees (2 commits, an edit), 3 commands of `build.sh`, `run_all.py`, `regen.sh` | failures, kills, full disk, edits and commits between commands and, once, under one |
| `checkers` | 4 routes, 2 sandboxes of 3 kinds, 2 runner versions | verification after verification |
| `dump` | 144 emissions cut everywhere, 2 bytes a line | both readers |
| `decks` | 2 units (emitting, lifting), 2 subjects of 2 definitions of 1 or 2 cells, reservations of 3, emission's of 2 | the layout of the heap, alarms, arity |

Why the bounds are enough. *ring:* nine bytes through four slots give refills of
every size at every offset, writes that split and pieces that do not, and a last
refill that is clipped; a ring of four with packets of three needs two packets for
a full refill; a stall threshold and a cap that differ exercise both sides of
`Spared`. What the run cannot show, a blob that fits the ring and every other
size, the proofs do. *capture:* a script holds every kind of token at
least once, with more than one diagnostic, an empty payload, a payload that stops short, a
header that cannot be read, a give-up, a missing sentinel; a prefix of every length is received in
every grouping. *gdb:* sixteen packets are the attach, one round with a fill and a
sample, and one more whose replies a late answer can displace. *session:* two drivers are
enough for every pairwise mix-up of two
sockets, three ports enough both to collide and to miss. *truth:* the long program
outlives the deadline, the others do not; the fault comes first or after output.
*build:* the scenario with the most commands needs three (build, edit and build,
revert and build); one move of the checkout reaches every window there is. *checkers:* a
leftover needs one earlier verification, a stale
runner one edit, a wrong sandbox one newer one. *dump:* sections empty, of one line
and of several; numbers of one to three digits; diagnostics with and without
errors. *decks:* two definitions of up to two cells fill a reservation of three, pass it
by one or leave room, and pass emission's by one, so both unwatched ends are overrun; a
second subject meets what the first one left; a declaration's
parameters and its result each hold commas and arrows of their own.

Three runs end in a counterexample, each against something the repository says of
itself:

- `build_reverted`. `lib.sh:55-56`: a matching fingerprint "means this exact plug is
  already compiled". A kill between the compile and the stamp, then a revert, makes
  the old fingerprint vouch for the plug of the edit. (A full disk under x86emit's
  ignored failure leads to the same, through `lib.sh:73`'s `-s`.)
- `checkers_leftover`. The bare-metal route passes on an earlier verification's
  files, for `verify_fib_with_qemu.py:47-53` looks at files and not at exit statuses.
- `gdb_verdict`. "The cursors tell those apart, and nothing else does"
  (`ring_compile.py:386-387`); a `read_pc` that timed out leaves its answer in the
  stream, and the verdict takes the program counter for the guest's write cursor. All
  it costs is the wrong name in a message: `GoesByItsOwn` says that no refill goes by
  such a reply.

More were met while modelling and are on record here and in the hazards without a
run.

- A streamed text that quotes `SIZE:` or `CODEGEN-HALTED` may end the capture before its
  sentinel (`ring_compile.py:446`, against 189-191). The run has such texts, and
  `FailureIsTheGuests` exempts them by name.
- A QEMU that dies under a program closes its socket as an exit does, and the prefix
  is not marked truncated (`codex_vm.py:162`, against 265); `TruthIsWhole` says that
  this is the only prefix there is.
- `common.sandbox` takes the newest sandbox by PROVENANCE alone (`common.py:23`,
  against 19: "that has the tools in it"); the verifier then fails by name.
- A dump cut inside the digits of its very last number is carved with another last
  byte (`common.py:156`); `CarvedAsEmitted` says that this is the worst there is.
- A dump with diagnostics that are no errors is carved by one reader and refused by
  the other: `emit-diags N` is followed by N lines, says `common.py:121`, and
  `f3_run.zig:119` expects the dot at once.
- A runner build that fails may leave part of a binary, and `verify_fib_with_x86.py:48`
  keeps it, for it is newer than its source: every later verification FAILs on it,
  which the comment at 44-46 says was cured. No PASS is owed to it (`PassIsEarned`).
- `build.sh` compares the commit once, when it starts: if the checkout moves under it, a tool
  of another commit lands in the sandbox (`Unmixed`).
- `run_all.py:82` and `build.sh:42` each read the commit: if it moves in between, RESULT
  names another than PROVENANCE ("launch" in `ResultNamesItsTree`).
- `regen.sh:48` stamps a sandbox that is in use with whatever commit the checkout is at
  (`restamped`).
- Two passages on the lift's ceiling are out of date: `emit_harness.py:626-639` and
  `LIFT_PROSE` (422-423) say that it is 0 and that no phase is wrapped in an extent; line
  692 passes `lift-ceiling`, in an extent, as 669-686 explains.

## 5. Fairness

- `RingTransport`: weak fairness of the host's next statement. `compile_ring` is one
  thread and no statement of it waits for the guest; socket timeouts make a dead
  stub an exception (`GdbFails`). Nothing is assumed of the guest, so `FeedEnds`
  rests on the stall detector and its hard cap alone.
- `GdbStub`: of the host's steps: `recv` returns or times out after five seconds.
  Nothing is assumed of the stub, which may never answer.
- `OutputCapture`: of the host's steps and of `Deadline`: `recv` times out after five
  seconds at most and the loop tests the clock each turn.
- `GuestSession`: of each driver's steps, which poll or time out, and of `Boots`: a
  booting guest says READY or falls silent. `wait_ready`'s timeout is per receive; a
  guest that chatters for ever without READY is waited on for ever, and that is the
  assumption. Nothing is assumed of QEMU's connecting.
- `TruthCapture`: of the host, of time, and of a program that is due printing.
- `SandboxBuild`, `FibCheckers`, `DumpFormat`, `HarnessDecks`: safety only, no fairness.

## 6. Proofs

`RingTransportProofs` proves, for every `BlobLen`, `RingSize`, `HeadBytes`, `PieceMax`,
`CellBase`, thresholds and sets of PCs that satisfy `RingAssumption`:

| theorem | statement |
|---|---|
| `Invariance` | `Spec => []IInv` |
| `ReadsInOrder`, `DetachSafe`, `VerdictSound`, `BusySpared` | the safety properties of run `ring` |
| `TypeCorrect`, `NothingOverrun` | the ranges of the variables, and that no published unread byte is overwritten; parts of `IInv`, which the run checks |
| `AccessHalted` | the action property `HaltedDuringAccess` |
| `RingImplementsFeed` | `Spec => ImplementsFeed` |

*Assumptions.* `RingAssumption` only: sizes are natural numbers, the ring is not
empty, a packet and the head read fit the ring. That `RING_SIZE` is a power of two
is not needed, since `%` is the code's mask. All of them hold of the code's constants
(2^20, 8, 1024).

*The invariant.* `GuestReadsInOrder` is not inductive: the next byte read is right
only if the slot under the read cursor holds it. `WindowInv` says that every slot
from the read cursor to what has been *written*, which during a refill is ahead of
what has been published, holds its position; `CursorInv` that the cursors are never
more than a ring apart, that the cell equals the host's `wpos` but for the middle of
`PublishLow`/`PublishHigh`, and that the chunk being written is the room clipped at
the blob's end; `ControlInv` that the VM is stopped whenever that is not so;
`StagedInv` that nothing has moved before the cursors are set; `IdleInv` that the
detector has counted no more rounds than the guest was idle, or that count is at its
bound. The heart is
`SplitWriteSlots`: a write of at most a ring's length puts every position in its slot
and leaves every slot outside alone. It rests on `ModAdd` and `ModApart`: two
positions less than a ring apart have different slots. There is one lemma per
action, and `NextIInv` puts them together.

*The refinement.* The initial states map; `PublishLow` maps to `Publish` (the window
bound is `CursorInv`), `GuestRead` to `Take`, `Detach` to `Release`, an abandon to
`Abort`, the rest to stutters.

`CodexVmProofs` proves of `TruthCapture`, for every set of programs and every choice of timeouts
that satisfies `TruthAssumption`:

| theorem | statement |
|---|---|
| `Invariance` | `Spec => []IInv` |
| `TypeCorrect` | `Spec => []TypeOK` |
| `TruthBanked` | `Spec => []TruthIsWhole` |

*Assumptions.* `TruthAssumption`: the timeouts are natural numbers, and a healthy
program's longest silence is shorter than the idle timeout. The second is what the
caller of `run_cdx` vouches for when it chooses `idle_timeout`; nothing is assumed of the
overall deadline, of `FAULT_IDLE_SECONDS`, or of which of the timeouts is the longer.

*The invariant.* `TruthIsWhole` speaks of a capture that is over. `CaptureInv` carries it
back to the moment the loop was left without a mark: everything is there. There are two
ways to leave so. An end of stream comes after everything unless QEMU died (`SockInv`).
A silence as long as is tolerated comes after everything because of `SilenceInv`: as
long as there is more to come, the silence so far is at most that of a healthy program,
and none at all once a fault is in the buffer, since a register dump comes in one
burst; so neither tolerance, `IdleTimeout` or the shorter one of a fault, is used up.

The other modules of proofs, each for every value of the constants that satisfies the
assumption of its component:

| module | theorem | statement |
|---|---|---|
| `SandboxBuildProofs` | `TypeCorrect`, `NoStalePlugEver`, `DoneIsBuilt` | `TypeOK`, `NoStalePlug`, `DoneMeansBuilt` |
| | `SandboxOfOneCommit`, `ResultOfOneCommit` | `OneSandboxOneCommit`, `ResultNamesItsTree` |
| `CodexVmProofs` | `SessionTypeCorrect`, `NoneOrphaned`, `ServedByItsOwn` | `SessionTypeOK`, `NoOrphan`, `OwnGuest` |
| `GdbStubProofs` | `HaltedOnAccess` | `AccessHalted` |
| | `TypeCorrect`, `OwnReplies` | `TypeOK`, `GoesByItsOwn` |
| `OutputCaptureProofs` | `EvidenceIsFresh` | `EvidenceFresh` |
| | `TypeCorrect`, `TrueIsWhole` | `TypeOK`, `TrueMeansWhole` |
| | `NeverGivesUpEarly`, `DiagnosticsKept` | `FailureIsTheGuests`, `NoDiagnosticLost` |
| `FibCheckersProofs` | `TypeCorrect`, `EveryPassEarned` | `TypeOK`, `PassIsEarned` |
| `HarnessDecksProofs` | `TypeCorrect`, `NeverOverwritten`, `EveryAlarmReal` | `TypeOK`, `NothingOverwritten`, `AlarmIsReal` |
| | `HeapStartsAfresh` | every subject finds the heap empty, with nothing live, whatever the declarations say |
| | `EverySubjectAfresh` | `StartsAfresh`: that, and a call with as many arguments as are taken |
| `DumpFormatProofs` | `TypeCorrect`, `CarvedRight` | `TypeOK`, `CarvedAsEmitted` |
| | `CleanAccepted`, `CalledWhole` | `CleanIsAccepted`, `CalledIsWhole` |

*SandboxBuild.* `SandboxAssumption`: a commit is neither "none" nor a torn PROVENANCE, and
`build.sh` is given subjects it knows. `PlugInv` says that plug and fingerprint belong
together except between the compile and the stamp, where the plug belongs to the
bundle just made, and that no plug exists while it is compiled; it is what the removal
of the old plug before the compile (`lib.sh:65`) is for. `CommitInv` ties the sandbox
(`BoxInv`) to what a running command has read (`ReadInv`). The theorems have no hypothesis
on when the checkout moves; each conjunct is stated for the histories that do not break
it, so the proof is that no other step does. `DoneInv` counts what is built by the subject the build is
at. The bounds on commands and moves, `MaxRuns` and `MaxMoves`, are any numbers.

*GuestSession.* `LifeInv`: a QEMU lives no longer than its driver is at work, and holds
a port only while it lives. With drivers run one at a time, whoever answers on a port
is then the driver's own QEMU (`ReachesItsOwn`), which is all `AloneInv` needs.

*GdbStub.* `interrupt()` may return on a leftover packet, with the VM still running; the
access behind it is safe because the stub serves in order. `StoppedAt(i)` says that the
VM will be stopped when the stub comes to the i-th command of `inbox`, and `HaltInv`
that this is so for every memory command, and at the end of `inbox` whenever the host
may send one. `GoesByItsOwn` needs to know where a foreign reply, one to a packet whose
call has ended, can be. What was received and what was not is one stream (`StreamIs`,
`CutIs`). Only a `read_pc` that timed out leaves a reply that is data, and the next
`interrupt()` swallows it: `OrderInv` says that such a reply stands before every `#` of
the stream, so whoever waits for a `#` takes it along. What `interrupt()` may leave in
turn is a stop packet, which the read behind it refuses (`StrangeInv`). A read
that accepts its reply has had the last of the stream (`LastInv`), so the
calls after it start with nothing foreign about (`CleanInv`). `?` is the one packet of the
attach, and its caller goes by whatever answers: the calls concerned begin behind it.

*OutputCapture.* The sidecar is made fresh in the step before any write of the artifact,
for any scripts whatever. The other three are for any sets of scripts of any length that satisfy
`FramedAssumption`; without it, a compiler that printed
more payload than it announced would have its file cut, and nothing in the driver could
tell. Their heart is that a prefix never shows anything that the whole does not
(`FirstOfPart`, `HeaderOfPart`): the number read from what has come is the number
announced. So `NeededInv` says of what the loop waits for that it is where the output
ends, `WaitInv` that the loop was left with all of that or by a death or the deadline, and
`BodyInv` that each file is written from what the parse before it found. `BinaryIs`,
`StreamIs` and `DiagnosticsIs` then equate what was cut from the stream with what the
guest printed.

*FibCheckers.* For any number of sandboxes, tools, verifications and edits. `FileInv`: as
long as nothing failed, the file gone on from is right; and on a route whose tools leave
nothing of an earlier verification, it is new, and right only if nothing failed.
The bare-metal route has only the first half, which is why `BareMetalPassIsEarned`
fails. `RunnerInv` says that the runner used is of
the present source; `StepInv` which steps belong to which route.

*HarnessDecks.* For units with and without the passes, emitting or lifting, and any
heights, definitions, sizes and subjects: `DecksAssumption` asks no more than that the heights and
sizes are positive and that there is a subject. A reservation that is too small ends in an
alarm, or, at the two ends no guard watches, in what `spilled` records. `PlanIs` spells the
let-chain out. `CeilingInv` says that from the first `build` on the top that is published is the
end of the reservation the deck is in, and that this is below the bivy until the seal;
`BaseInv` that each walk measures itself against the reservation it fills, with a keep
directly below the scratch built behind it; `LiveInv` that what is live and was not spilled is
below the bivy and outside what is still to be filled, deck or keep, and in emission, where the
two cursors are in one region, below the deck.

The arity check asks `SignaturesAssumption` of the declarations besides: there is a
parameter, each parameter's parentheses are closed and its commas inside them, and the
result has no arrow of its own outside parentheses. The last is what `require_arity`
takes for granted when it cuts at the last top-level arrow. `Joined` counts
tokens one parameter at a time (`OneMore`): at the end of each the parentheses are even
and the top-level commas are one fewer than the parameters. `ArityCounts` then has the
cut at the arrow before the result, so what is counted is what is taken.

*DumpFormat.* For any emissions with counts that are natural numbers and sections that
are sequences of bytes of any length (`DumpAssumption`), any `LineBytes` and every cut.
The argument has three parts.

1. What was written. `DumpIs` says line by line what stands where in a dump: the
   sections begin at `H`, `C` and `T`, with `Rows` lines each, and it ends at `E`.
2. What was received. `CutIs` and `Told`: all lines but the last are the dump's, and
   the last keeps the kind and key of the dump's line or is no line at all; a dot is never
   cut. So the first dot behind a mark is the dump's, or there is none (`DotAt`), and the
   lines in between hold the section's bytes as far as they go (`BodyIs`): fewer, or as
   many, of which the last alone may be wrong.
3. Where the reader is. `InHead`: at a line that is a pair in the dump, with the lengths
   behind it, or past the end of a dump that was cut; that a cut `emit-diags` is never
   taken for a whole one is what the dot behind its diagnostics is for. `AtSection`: at the
   start of a section with those before it carved as emitted. `PastEnd`: else it is past
   the end of a dump that was cut, and has the three sections only if the tail was as long
   as announced. `VerdictInv`: what is accepted is right, and what is refused was cut or
   has errors.

`f3_run` is one function of the lines, so `CalledIsWhole` needs no more of the invariant
than its first conjunct: `ParsedIsWhole` follows the parser from mark to dot
(`F3Closed`), and `WholeParses` does the same for a dump that arrived whole (`F3Whole`).

*Induction over data.* The library's induction theorems take a predicate, which the
installed provers cannot instantiate. Where a fact needs an induction (`FlatRows`:
what `FlattenSeq` makes of the rows of a section; `Joined` above), it is stated as a set of
the numbers it holds of. `Upward` says that a set of numbers that has 0 and is
closed upwards has them all: otherwise there is a least one outside, by
`WFMin` of the library.

*Only model-checked.* Liveness (`FeedEnds`, `CallsEnd`, `CaptureEnds`, `DriversEnd`,
`RunEnds`), which is beyond what the prover handles. The claims of
section 4's three counterexamples are false, so there is nothing of them to prove.

## 7. Not modelled

The QEMU command line, symbol naming in messages, elapsed times, logs and the
other fields of PROVENANCE; `f3_run`'s mapping and calling of the code, and
`boot_emitted`'s own checks of the header; the IR diff that annotates a PASS; the
paced send of `compile_blob`; `need_codex_root` when git itself fails. Of the harness
generator: the bisection variants (`probe`, `scan=False`), `driver_cdx_source`,
`halt_gate` and the texts of the diagnostics; of `regen.sh`, which kernels it makes,
`naga` and `--write`. `cce.py` and `zig_plug_pages.py` are stateless and decide nothing
here; `roots.py` resolves two paths or refuses; `serve.sh` starts a file server. `run_cdx` does
not call `wait_ready`, so `TruthCapture` starts at the connected socket; the finally
clauses that kill without waiting are taken as a kill. The external compiler, its
chapters and its guests are actions marked external: what the code in `src/` lets
them do, and no more.
