---------------------------- MODULE GuestSession ----------------------------
(***************************************************************************)
(* How a driver gets a guest and gets rid of it: codex_vm.launch, its       *)
(* connect loop, wait_ready and the drivers' `finally`.                     *)
(*                                                                          *)
(* QEMU opens its two serial chardevs in order, each with wait=on: it       *)
(* listens, blocks until somebody connects, then goes on to the next, and   *)
(* boots the guest once both are connected.  The drivers poll.  The ports   *)
(* were free when they were picked and are bound only later, by QEMU.       *)
(*                                                                          *)
(* TruthCapture is the other half of codex_vm.py; one module of proofs      *)
(* extends both, so the specification's names here say Session.             *)
(***************************************************************************)
EXTENDS Integers, FiniteSets

CONSTANTS
  Drivers,     \* driver processes on this host
  Ports,       \* TCP ports
  MaxTries     \* connection attempts per port (120)

ASSUME SessionAssumption == MaxTries \in Nat \ {0} /\ Ports # {}

Nobody == "nobody"

VARIABLES
  careful,   \* the drivers are run one at a time
  pc,        \* where each driver is
  port,      \* the ports it picked: [data, ctrl]
  tries,     \* its failed attempts at the current port
  peer,      \* whose QEMU each of its sockets is connected to
  qemu,      \* what each driver's QEMU is doing
  bound      \* which driver's QEMU holds each port

sessionVars == <<careful, pc, port, tries, peer, qemu, bound>>
hostVars == <<careful, pc, port, tries, peer>>

Active == {"spawn", "data", "ctrl", "ready", "serving"}
Left   == {"returned", "raised"}
Gone   == {"none", "dead"}

SessionInit ==
  /\ careful \in BOOLEAN
  /\ pc = [d \in Drivers |-> "start"]
  /\ port \in [Drivers -> {[data |-> p, ctrl |-> p] : p \in {CHOOSE q \in Ports : TRUE}}]
  /\ tries = [d \in Drivers |-> 0]
  /\ peer = [d \in Drivers |-> [data |-> Nobody, ctrl |-> Nobody]]
  /\ qemu = [d \in Drivers |-> "none"]
  /\ bound = [p \in Ports |-> Nobody]

Go(d, to) == pc' = [pc EXCEPT ![d] = to]

(* A dead QEMU holds no port.                                               *)
Kill(d) ==
  /\ qemu' = [qemu EXCEPT ![d] = "dead"]
  /\ bound' = [p \in Ports |-> IF bound[p] = d THEN Nobody ELSE bound[p]]

(* Every way out of a driver kills its QEMU: launch's `except` while it is  *)
(* connecting, the caller's `finally` after that.                           *)
MutLeaveRunning(d, how) == Go(d, how) /\ UNCHANGED <<qemu, bound>>
Leave(d, how) == Go(d, how) /\ Kill(d)
-----------------------------------------------------------------------------
(* There is no lock: drivers do not overlap because nobody starts two.      *)
MutNoCare == TRUE
OneAtATime == \A o \in Drivers : pc[o] \notin Active

(* free_port, twice: each socket is closed again at once.                   *)
PickPorts(d) ==
  /\ pc[d] = "start"
  /\ careful => OneAtATime
  /\ \E p, q \in {r \in Ports : bound[r] = Nobody} :
        port' = [port EXCEPT ![d] = [data |-> p, ctrl |-> q]]
  /\ Go(d, "spawn")
  /\ UNCHANGED <<careful, tries, peer, qemu, bound>>

Spawn(d) ==
  /\ pc[d] = "spawn"
  /\ qemu' = [qemu EXCEPT ![d] = "starting"]
  /\ Go(d, "data")
  /\ UNCHANGED <<careful, port, tries, peer, bound>>

(* The connect loop has a try left.                                         *)
MutTriesOffByTwo(d) == tries[d] < MaxTries + 1
TriesLeft(d) == tries[d] + 1 < MaxTries

(* One turn of the connect loop for the socket `s`, then on to `next`.  A   *)
(* connection reaches whoever holds the port.                               *)
Connect(d, s, next) ==
  /\ pc[d] = s
  /\ UNCHANGED <<careful, port>>
  /\ \/ /\ qemu[d] = "dead"
        /\ Leave(d, "raised")
        /\ UNCHANGED <<careful, tries, peer>>
     \/ /\ qemu[d] # "dead" /\ bound[port[d][s]] # Nobody
        /\ peer' = [peer EXCEPT ![d][s] = bound[port[d][s]]]
        /\ tries' = [tries EXCEPT ![d] = 0]
        /\ Go(d, next)
        /\ UNCHANGED <<qemu, bound>>
     \/ /\ qemu[d] # "dead" /\ bound[port[d][s]] = Nobody
        /\ IF TriesLeft(d)
             THEN /\ tries' = [tries EXCEPT ![d] = tries[d] + 1]
                  /\ UNCHANGED <<pc, qemu, bound>>
             ELSE Leave(d, "raised") /\ UNCHANGED tries
        /\ UNCHANGED peer

(* wait_ready: READY, the end of the console, or too long a silence.  A     *)
(* guest that keeps printing restarts the timeout, so "booting" is not one. *)
Silent == {"waitdata", "opening", "waitctrl", "hung"}
MutEofIgnored(q) == q \in Silent
WaitFails(q) == q \in Silent \cup Gone

WaitReady(d) ==
  /\ pc[d] = "ready"
  /\ \/ qemu[peer[d].ctrl] = "up" /\ Go(d, "serving") /\ UNCHANGED <<qemu, bound>>
     \/ WaitFails(qemu[peer[d].ctrl]) /\ Leave(d, "raised")
  /\ UNCHANGED <<careful, port, tries, peer>>

(* The driver's own work, which other modules describe, ends either way.    *)
Finish(d) ==
  /\ pc[d] = "serving"
  /\ \E how \in Left : Leave(d, how)
  /\ UNCHANGED <<careful, port, tries, peer>>

(* ^C is a BaseException: the same clean-up runs.                           *)
Interrupted(d) ==
  /\ pc[d] \in {"data", "ctrl", "ready", "serving"}
  /\ Leave(d, "raised")
  /\ UNCHANGED <<careful, port, tries, peer>>
-----------------------------------------------------------------------------
(* QEMU and its guest.                                                      *)
Turns(d, from, to) ==
  /\ qemu[d] = from
  /\ qemu' = [qemu EXCEPT ![d] = to]
  /\ UNCHANGED hostVars

(* Open the next chardev; a port already held makes QEMU exit.              *)
Listens(d, from, s, to) ==
  /\ qemu[d] = from
  /\ IF bound[port[d][s]] = Nobody
       THEN /\ bound' = [bound EXCEPT ![port[d][s]] = d]
            /\ qemu' = [qemu EXCEPT ![d] = to]
       ELSE Kill(d)
  /\ UNCHANGED hostVars

Accepted(d, s) == \E o \in Drivers : peer[o][s] = d

Accepts(d, s, from, to) ==
  /\ Accepted(d, s)
  /\ Turns(d, from, to)
  /\ UNCHANGED bound

(* Console output before READY only restarts the driver's timeout.          *)
Boots(d) ==
  /\ Turns(d, "booting", "up") \/ Turns(d, "booting", "hung")
  /\ UNCHANGED bound

Dies(d) ==
  /\ qemu[d] \notin Gone
  /\ Kill(d)
  /\ UNCHANGED hostVars

QemuStep(d) ==
  \/ Listens(d, "starting", "data", "waitdata")
  \/ Accepts(d, "data", "waitdata", "opening")
  \/ Listens(d, "opening", "ctrl", "waitctrl")
  \/ Accepts(d, "ctrl", "waitctrl", "booting")
  \/ Boots(d)

DriverStep(d) ==
  \/ PickPorts(d) \/ Spawn(d)
  \/ Connect(d, "data", "ctrl") \/ Connect(d, "ctrl", "ready")
  \/ WaitReady(d) \/ Finish(d)

AllLeft == (\A d \in Drivers : pc[d] \in Left) /\ UNCHANGED sessionVars

SessionNext ==
  \/ \E d \in Drivers : DriverStep(d) \/ Interrupted(d) \/ QemuStep(d) \/ Dies(d)
  \/ AllLeft

SessionSpec == SessionInit /\ [][SessionNext]_sessionVars

(* Drivers run on; a booting guest says READY or falls silent for good.     *)
FairSession ==
  /\ SessionSpec
  /\ \A d \in Drivers : WF_sessionVars(DriverStep(d)) /\ WF_sessionVars(Boots(d))
-----------------------------------------------------------------------------
(* Every variable keeps to its range.                                       *)
SessionTypeOK ==
  /\ careful \in BOOLEAN
  /\ pc \in [Drivers -> {"start"} \cup Active \cup Left]
  /\ port \in [Drivers -> [data : Ports, ctrl : Ports]]
  /\ tries \in [Drivers -> 0 .. MaxTries]
  /\ peer \in [Drivers -> [data : Drivers \cup {Nobody}, ctrl : Drivers \cup {Nobody}]]
  /\ qemu \in [Drivers -> {"none", "starting", "waitdata", "opening", "waitctrl",
                           "booting", "up", "hung", "dead"}]
  /\ bound \in [Ports -> Drivers \cup {Nobody}]

(* No driver ends with its QEMU still holding a port and its whole RAM,     *)
(* wherever the connecting stopped: half-connected guests used to stay.     *)
NoOrphan == \A d \in Drivers : pc[d] \in Left => qemu[d] \in Gone

(* While drivers do not overlap, one that is served talks to its own guest  *)
(* on both sockets.                                                         *)
OwnGuest ==
  \A d \in Drivers : careful /\ pc[d] = "serving" => peer[d] = [data |-> d, ctrl |-> d]

(* Every driver ends, also with QEMU dead or hung at any point.             *)
DriversEnd == \A d \in Drivers : <>(pc[d] \in Left)
=============================================================================
