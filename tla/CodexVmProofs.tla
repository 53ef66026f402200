---------------------------- MODULE CodexVmProofs ----------------------------
(* Proofs about codex_vm.py: getting a guest and getting rid of it, for any  *)
(* number of drivers, ports and connection attempts; and recv_all and        *)
(* run_cdx, for all programs and all timeouts that satisfy TruthAssumption.  *)
EXTENDS GuestSession, TruthCapture, TLAPS
-----------------------------------------------------------------------------
(* The guest session.                                                        *)
(* A QEMU lives no longer than its driver is at work, and holds a port only  *)
(* while it lives.                                                           *)
LifeInv ==
  /\ \A d \in Drivers : pc[d] \notin Active => qemu[d] \in Gone
  /\ \A p \in Ports : bound[p] # Nobody => qemu[bound[p]] \notin Gone

(* Where drivers are run one at a time, one that is at work is alone, and    *)
(* each socket it has is connected to its own guest.                         *)
AloneInv ==
  careful =>
    /\ \A d, o \in Drivers : pc[d] \in Active /\ pc[o] \in Active => d = o
    /\ \A d \in Drivers : /\ pc[d] \in {"ctrl", "ready", "serving"} => peer[d].data = d
                          /\ pc[d] \in {"ready", "serving"} => peer[d].ctrl = d

SessionInv == SessionTypeOK /\ LifeInv /\ AloneInv
-----------------------------------------------------------------------------
(* A host without drivers.                                                   *)
LEMMA SessionInitInv == SessionInit => SessionInv
  <1> SUFFICES ASSUME SessionInit PROVE SessionInv
    OBVIOUS
  <1>1. (CHOOSE q \in Ports : TRUE) \in Ports
    BY SessionAssumption
  <1>2. SessionTypeOK
    BY <1>1, SessionAssumption DEF SessionInit, SessionTypeOK
  <1>3. LifeInv /\ AloneInv
    BY DEF SessionInit, LifeInv, AloneInv, Active, Gone
  <1> QED BY <1>2, <1>3 DEF SessionInv

(* A driver that is killing its QEMU on its way out.                         *)
LEMMA LeaveInv ==
  ASSUME SessionInv, NEW d \in Drivers, NEW how \in Left, Leave(d, how),
         UNCHANGED <<careful, port, tries, peer>>
  PROVE  SessionInv'
  <1> USE DEF SessionInv, Leave, Go, Kill
  <1>1. SessionTypeOK'
    BY DEF SessionTypeOK
  <1>2. LifeInv'
    BY DEF SessionTypeOK, LifeInv, Left, Active, Gone
  <1>3. AloneInv'
    BY DEF SessionTypeOK, AloneInv, Left, Active
  <1> QED BY <1>1, <1>2, <1>3

(* A QEMU that exits or is killed.                                           *)
LEMMA KillInv ==
  ASSUME SessionInv, NEW d \in Drivers, Kill(d), UNCHANGED hostVars PROVE SessionInv'
  <1> USE DEF SessionInv, Kill, hostVars
  <1>1. SessionTypeOK'
    BY DEF SessionTypeOK
  <1>2. LifeInv'
    BY DEF SessionTypeOK, LifeInv, Gone
  <1>3. AloneInv'
    BY DEF AloneInv
  <1> QED BY <1>1, <1>2, <1>3

(* A QEMU that goes on from one live state to another.                       *)
LEMMA TurnsInv ==
  ASSUME SessionInv, NEW d \in Drivers, NEW from, NEW to, Turns(d, from, to),
         from \notin Gone, UNCHANGED bound,
         to \in {"opening", "booting", "up", "hung"}
  PROVE  SessionInv'
  <1> USE DEF SessionInv, Turns, hostVars
  <1>1. SessionTypeOK'
    BY DEF SessionTypeOK
  <1>2. LifeInv'
    BY DEF SessionTypeOK, LifeInv, Gone
  <1>3. AloneInv'
    BY DEF AloneInv
  <1> QED BY <1>1, <1>2, <1>3

(* A QEMU that opens a chardev, or finds its port taken and exits.           *)
LEMMA ListensInv ==
  ASSUME SessionInv, NEW d \in Drivers, NEW from, NEW s \in {"data", "ctrl"}, NEW to,
         Listens(d, from, s, to), from \notin Gone, to \in {"waitdata", "waitctrl"}
  PROVE  SessionInv'
  <1>1. CASE bound[port[d][s]] = Nobody
    <2> USE <1>1 DEF SessionInv, Listens, hostVars
    <2>1. port[d][s] \in Ports
      BY DEF SessionTypeOK
    <2>2. SessionTypeOK'
      BY <2>1 DEF SessionTypeOK
    <2>3. LifeInv'
      BY <2>1 DEF SessionTypeOK, LifeInv, Gone
    <2>4. AloneInv'
      BY DEF AloneInv
    <2> QED BY <2>2, <2>3, <2>4
  <1>2. CASE bound[port[d][s]] # Nobody
    BY <1>2, KillInv DEF Listens
  <1> QED BY <1>1, <1>2

(* Whoever holds a port is at work: a driver that is alone reaches only its  *)
(* own guest.                                                                *)
LEMMA ReachesItsOwn ==
  ASSUME SessionInv, careful, NEW d \in Drivers, pc[d] \in Active,
         NEW p \in Ports, bound[p] # Nobody
  PROVE  bound[p] = d
  <1>1. bound[p] \in Drivers /\ qemu[bound[p]] \notin Gone
    BY DEF SessionInv, SessionTypeOK, LifeInv
  <1>2. pc[bound[p]] \in Active
    BY <1>1 DEF SessionInv, LifeInv
  <1> QED BY <1>1, <1>2 DEF SessionInv, AloneInv

(* One turn of the connect loop.                                             *)
LEMMA ConnectInv ==
  ASSUME SessionInv, NEW d \in Drivers,
         Connect(d, "data", "ctrl") \/ Connect(d, "ctrl", "ready")
  PROVE  SessionInv'
  <1>1. PICK s \in {"data", "ctrl"} :
          Connect(d, s, IF s = "data" THEN "ctrl" ELSE "ready")
    OBVIOUS
  <1> DEFINE next == IF s = "data" THEN "ctrl" ELSE "ready"
  <1>2. pc[d] = s /\ careful' = careful /\ port' = port /\ port[d][s] \in Ports
        /\ tries[d] \in 0 .. MaxTries
    BY <1>1 DEF Connect, SessionInv, SessionTypeOK
  <1>3. CASE /\ bound[port[d][s]] # Nobody
             /\ peer' = [peer EXCEPT ![d][s] = bound[port[d][s]]]
             /\ tries' = [tries EXCEPT ![d] = 0]
             /\ Go(d, next) /\ UNCHANGED <<qemu, bound>>
    <2>1. bound[port[d][s]] \in Drivers
      BY <1>2, <1>3 DEF SessionInv, SessionTypeOK
    <2>2. SessionTypeOK'
      BY <1>2, <1>3, <2>1, SessionAssumption DEF SessionInv, SessionTypeOK, Go, Active
    <2>3. LifeInv'
      BY <1>2, <1>3 DEF SessionInv, SessionTypeOK, LifeInv, Go, Active
    <2>4. careful => bound[port[d][s]] = d
      BY <1>2, <1>3, ReachesItsOwn DEF Active
    <2>5. AloneInv'
      BY <1>2, <1>3, <2>4 DEF SessionInv, SessionTypeOK, AloneInv, Go, Active
    <2> QED BY <2>2, <2>3, <2>5 DEF SessionInv
  <1>4. CASE TriesLeft(d) /\ tries' = [tries EXCEPT ![d] = tries[d] + 1]
             /\ UNCHANGED <<pc, qemu, bound, peer>>
    <2>1. SessionTypeOK'
      BY <1>2, <1>4, SessionAssumption DEF SessionInv, SessionTypeOK, TriesLeft
    <2>2. LifeInv' /\ AloneInv'
      BY <1>2, <1>4 DEF SessionInv, LifeInv, AloneInv
    <2> QED BY <2>1, <2>2 DEF SessionInv
  <1>5. CASE Leave(d, "raised") /\ UNCHANGED <<tries, peer>>
    BY <1>2, <1>5, LeaveInv DEF Left
  <1> QED BY <1>1, <1>3, <1>4, <1>5 DEF Connect

(* Every step, and every stutter, keeps the invariant.                       *)
LEMMA SessionNextInv == SessionInv /\ [SessionNext]_sessionVars => SessionInv'
  <1> SUFFICES ASSUME SessionInv, [SessionNext]_sessionVars PROVE SessionInv'
    OBVIOUS
  <1>1. ASSUME NEW d \in Drivers, PickPorts(d) PROVE SessionInv'
    <2>1. SessionTypeOK'
      BY <1>1 DEF SessionInv, SessionTypeOK, PickPorts, Go, Active
    <2>2. LifeInv'
      BY <1>1 DEF SessionInv, SessionTypeOK, LifeInv, PickPorts, Go, Active
    <2>3. AloneInv'
      BY <1>1 DEF SessionInv, SessionTypeOK, AloneInv, PickPorts, OneAtATime, Go, Active
    <2> QED BY <2>1, <2>2, <2>3 DEF SessionInv
  <1>2. ASSUME NEW d \in Drivers, Spawn(d) PROVE SessionInv'
    <2>1. SessionTypeOK'
      BY <1>2 DEF SessionInv, SessionTypeOK, Spawn, Go, Active
    <2>2. LifeInv'
      BY <1>2 DEF SessionInv, SessionTypeOK, LifeInv, Spawn, Go, Active, Gone
    <2>3. AloneInv'
      BY <1>2 DEF SessionInv, SessionTypeOK, AloneInv, Spawn, Go, Active
    <2> QED BY <2>1, <2>2, <2>3 DEF SessionInv
  <1>3. ASSUME NEW d \in Drivers, Connect(d, "data", "ctrl") \/ Connect(d, "ctrl", "ready")
        PROVE SessionInv'
    BY <1>3, ConnectInv
  <1>4. ASSUME NEW d \in Drivers, WaitReady(d) PROVE SessionInv'
    <2>1. CASE Leave(d, "raised")
      BY <1>4, <2>1, LeaveInv DEF WaitReady, Left
    <2>2. CASE Go(d, "serving") /\ UNCHANGED <<qemu, bound>>
      <3>1. pc[d] = "ready" /\ UNCHANGED <<careful, port, tries, peer>>
        BY <1>4 DEF WaitReady
      <3>2. SessionTypeOK'
        BY <2>2, <3>1 DEF SessionInv, SessionTypeOK, Go, Active
      <3>3. LifeInv' /\ AloneInv'
        BY <2>2, <3>1 DEF SessionInv, SessionTypeOK, LifeInv, AloneInv, Go, Active
      <3> QED BY <3>2, <3>3 DEF SessionInv
    <2> QED BY <1>4, <2>1, <2>2 DEF WaitReady
  <1>5. ASSUME NEW d \in Drivers, Finish(d) \/ Interrupted(d) PROVE SessionInv'
    BY <1>5, LeaveInv DEF Finish, Interrupted, Left
  <1>6. ASSUME NEW d \in Drivers, QemuStep(d) PROVE SessionInv'
    <2>1. "starting" \notin Gone /\ "opening" \notin Gone
      BY DEF Gone
    <2>2. CASE \/ Listens(d, "starting", "data", "waitdata")
               \/ Listens(d, "opening", "ctrl", "waitctrl")
      BY <2>1, <2>2, ListensInv
    <2>3. CASE \/ Accepts(d, "data", "waitdata", "opening")
               \/ Accepts(d, "ctrl", "waitctrl", "booting") \/ Boots(d)
      BY <2>3, TurnsInv DEF Accepts, Boots, Gone
    <2> QED BY <1>6, <2>2, <2>3 DEF QemuStep
  <1>7. ASSUME NEW d \in Drivers, Dies(d) PROVE SessionInv'
    BY <1>7, KillInv DEF Dies
  <1>8. CASE AllLeft \/ UNCHANGED sessionVars
    BY <1>8 DEF AllLeft, sessionVars, SessionInv, SessionTypeOK, LifeInv, AloneInv
  <1> QED BY <1>1, <1>2, <1>3, <1>4, <1>5, <1>6, <1>7, <1>8 DEF SessionNext, DriverStep

(* The invariant holds in every state of every run.                          *)
THEOREM SessionInvariance == SessionSpec => []SessionInv
  <1> QED BY SessionInitInv, SessionNextInv, PTL DEF SessionSpec

(* Every variable keeps to its range.                                        *)
THEOREM SessionTypeCorrect == SessionSpec => []SessionTypeOK
  <1>1. SessionInv => SessionTypeOK
    BY DEF SessionInv
  <1> QED BY <1>1, SessionInvariance, PTL

(* However many drivers there are and wherever each of them stops: none ends *)
(* with its QEMU alive.                                                      *)
THEOREM NoneOrphaned == SessionSpec => []NoOrphan
  <1>1. SessionInv => NoOrphan
    BY DEF SessionInv, LifeInv, NoOrphan, Left, Active
  <1> QED BY <1>1, SessionInvariance, PTL

(* Where nobody starts two drivers at once, a driver that is served talks to *)
(* its own guest on both sockets.                                            *)
THEOREM ServedByItsOwn == SessionSpec => []OwnGuest
  <1>1. SessionInv => OwnGuest
    BY DEF SessionInv, SessionTypeOK, AloneInv, OwnGuest
  <1> QED BY <1>1, SessionInvariance, PTL
-----------------------------------------------------------------------------
(* The capture of a program's output.                                        *)
(* A recv_all that has not begun satisfies the invariant.                    *)
LEMMA InitIInv == Init => IInv
  <1> SUFFICES ASSUME Init PROVE IInv
    OBVIOUS
  <1>1. program \in Seq({"line", "exc", "reg"}) /\ Len(program) \in Nat
    BY TruthAssumption DEF Init
  <1>2. TypeOK
    <2>1. sent \in 0 .. Len(program) /\ got \in 0 .. sent /\ quiet \in 0 .. IdleTimeout
      BY <1>1, TruthAssumption DEF Init
    <2> QED BY <2>1 DEF Init, TypeOK
  <1>3. SilenceInv
    BY TruthAssumption DEF Init, SilenceInv
  <1>4. SockInv /\ CaptureInv
    BY DEF Init, SockInv, CaptureInv
  <1> QED BY <1>2, <1>3, <1>4 DEF IInv

(* What the ranges of the variables make available to every step.            *)
LEMMA Ranges ==
  ASSUME TypeOK
  PROVE  /\ Len(program) \in Nat /\ sent \in Nat /\ got \in Nat /\ quiet \in Nat
         /\ got <= sent /\ sent <= Len(program) /\ quiet <= IdleTimeout
         /\ Tolerance \in Nat \ {0} /\ Tolerance <= IdleTimeout
  <1>1. Len(program) \in Nat
    BY TruthAssumption DEF TypeOK
  <1>2. sent \in 0 .. Len(program) /\ got \in 0 .. sent /\ quiet \in 0 .. IdleTimeout
    BY DEF TypeOK
  <1>3. Tolerance \in Nat \ {0} /\ Tolerance <= IdleTimeout
    BY TruthAssumption DEF Tolerance
  <1> QED BY <1>1, <1>2, <1>3, TruthAssumption

(* The guest prints a line, exits, or dies.                                  *)
LEMMA GuestIInv == ASSUME IInv, Prints \/ Exit \/ Die PROVE IInv'
  <1>1. TypeOK
    BY DEF IInv
  <1>2. got' = got /\ quiet' = quiet /\ elapsed' = elapsed /\ phase' = phase
        /\ truncated' = truncated /\ program' = program
    BY DEF Prints, Exit, Die
  <1>3. CASE Prints
    <2>1. sent' = sent + 1 /\ sent' <= Len(program) /\ sock = "open"
          /\ sock' = sock /\ died' = died
      BY <1>1, <1>3, Ranges DEF Prints
    <2>2. TypeOK'
      BY <1>1, <1>2, <2>1, Ranges DEF TypeOK
    <2>3. SilenceInv'
      <3>1. got' # sent'
        BY <1>1, <1>2, <2>1, Ranges
      <3> QED BY <3>1 DEF SilenceInv
    <2>4. SockInv' /\ CaptureInv'
      BY <1>2, <2>1 DEF IInv, SockInv, CaptureInv
    <2> QED BY <2>2, <2>3, <2>4 DEF IInv
  <1>4. CASE Exit
    <2>1. sent' = sent /\ sent = Len(program) /\ sock = "open" /\ sock' = "eof"
          /\ died' = died
      BY <1>4 DEF Exit
    <2>2. TypeOK'
      BY <1>1, <1>2, <2>1 DEF TypeOK
    <2>3. SilenceInv' /\ SockInv' /\ CaptureInv'
      BY <1>2, <2>1 DEF IInv, SilenceInv, SockInv, CaptureInv
    <2> QED BY <2>2, <2>3 DEF IInv
  <1>5. CASE Die
    <2>1. sent' = sent /\ phase = "reading" /\ sock' \in {"eof", "error"} /\ died' = TRUE
      BY <1>5 DEF Die
    <2>2. TypeOK'
      BY <1>1, <1>2, <2>1 DEF TypeOK
    <2>3. SilenceInv' /\ SockInv' /\ CaptureInv'
      BY <1>2, <2>1 DEF SilenceInv, SockInv, CaptureInv
    <2> QED BY <2>2, <2>3 DEF IInv
  <1> QED BY <1>3, <1>4, <1>5

(* A chunk: the silence starts again, and past the deadline it is the last.  *)
LEMMA RecvIInv == ASSUME IInv, Recv PROVE IInv'
  <1>1. TypeOK /\ SockInv
    BY DEF IInv
  <1>2. phase = "reading" /\ quiet' = 0 /\ got' \in got + 1 .. sent
        /\ program' = program /\ sent' = sent /\ sock' = sock /\ died' = died
        /\ elapsed' = elapsed
        /\ \/ phase' = "captured" /\ truncated' = TRUE
           \/ phase' = "reading" /\ truncated' = truncated
    BY DEF Recv, guestVars
  <1>3. TypeOK'
    <2>1. got \in Nat /\ sent \in Nat /\ IdleTimeout \in Nat
      BY <1>1, Ranges, TruthAssumption
    <2>2. got' \in 0 .. sent'
      <3>1. got' \in got + 1 .. sent /\ sent' = sent
        BY <1>2
      <3> QED BY <2>1, <3>1
    <2>3. quiet' \in 0 .. IdleTimeout
      <3>1. quiet' = 0
        BY <1>2
      <3> QED BY <2>1, <3>1
    <2> QED BY <1>1, <1>2, <2>2, <2>3 DEF TypeOK
  <1>4. SilenceInv'
    BY <1>2, TruthAssumption DEF SilenceInv
  <1>5. SockInv' /\ CaptureInv'
    BY <1>1, <1>2 DEF SockInv, CaptureInv
  <1> QED BY <1>3, <1>4, <1>5 DEF IInv

(* A silence as long as is tolerated comes only after everything: before     *)
(* that, a healthy program falls silent less long, and a dump not at all.    *)
LEMMA SilenceIInv == ASSUME IInv, Silence PROVE IInv'
  <1>1. TypeOK /\ SilenceInv /\ SockInv
    BY DEF IInv
  <1>2. phase = "reading" /\ sock = "open" /\ got = sent /\ quiet >= Tolerance
        /\ phase' = "captured" /\ got' = got /\ quiet' = quiet /\ elapsed' = elapsed
        /\ truncated' = truncated
        /\ program' = program /\ sent' = sent /\ sock' = sock /\ died' = died
    BY DEF Silence, guestVars
  <1>3. got = Len(program)
    <2> SUFFICES ASSUME sent < Len(program) PROVE FALSE
      BY <1>1, <1>2, Ranges
    <2>1. quiet <= MaxGap /\ (Faulted(buf) => quiet = 0)
      BY <1>1, <1>2 DEF SilenceInv
    <2>2. CASE Faulted(buf)
      BY <1>1, <1>2, <2>1, <2>2, Ranges
    <2>3. CASE ~Faulted(buf)
      <3>1. Tolerance = IdleTimeout
        BY <2>3 DEF Tolerance
      <3> QED BY <1>1, <1>2, <2>1, <3>1, Ranges, TruthAssumption
    <2> QED BY <2>2, <2>3
  <1>4. TypeOK'
    BY <1>1, <1>2 DEF TypeOK
  <1>5. SilenceInv' /\ SockInv' /\ CaptureInv'
    BY <1>1, <1>2, <1>3 DEF SilenceInv, SockInv, CaptureInv
  <1> QED BY <1>4, <1>5 DEF IInv

(* The end of the stream of a QEMU that lived comes after everything, and a  *)
(* socket error is marked.                                                   *)
LEMMA ClosedIInv == ASSUME IInv, Eof \/ SocketError PROVE IInv'
  <1>1. TypeOK /\ SockInv
    BY DEF IInv
  <1>2. phase' = "captured" /\ got' = got /\ quiet' = quiet /\ elapsed' = elapsed
        /\ program' = program /\ sent' = sent /\ sock' = sock /\ died' = died
        /\ \/ sock = "eof" /\ got = sent /\ truncated' = truncated
           \/ truncated' = TRUE
    BY DEF Eof, SocketError, guestVars
  <1>3. TypeOK'
    BY <1>1, <1>2 DEF TypeOK
  <1>4. SilenceInv' /\ SockInv' /\ CaptureInv'
    BY <1>1, <1>2 DEF SilenceInv, SockInv, CaptureInv
  <1> QED BY <1>3, <1>4 DEF IInv

(* run_cdx raises on a capture that was cut, and returns any other.          *)
LEMMA JudgeIInv == ASSUME IInv, Judge PROVE IInv'
  <1>1. TypeOK /\ SockInv /\ CaptureInv
    BY DEF IInv
  <1>2. phase = "captured" /\ phase' = (IF truncated THEN "raised" ELSE "returned")
        /\ got' = got /\ quiet' = quiet /\ elapsed' = elapsed /\ truncated' = truncated
        /\ program' = program /\ sent' = sent /\ sock' = sock /\ died' = died
    BY DEF Judge, Refused, guestVars
  <1>3. truncated \in BOOLEAN
    BY <1>1 DEF TypeOK
  <1>4. TypeOK'
    BY <1>1, <1>2, <1>3 DEF TypeOK
  <1>5. SilenceInv' /\ SockInv'
    BY <1>1, <1>2, <1>3 DEF SilenceInv, SockInv
  <1>6. CaptureInv'
    BY <1>1, <1>2, <1>3 DEF CaptureInv
  <1> QED BY <1>4, <1>5, <1>6 DEF IInv

(* Time passes: within the patience of the host, and not past a line due.    *)
LEMMA TickIInv == ASSUME IInv, Tick PROVE IInv'
  <1>1. TypeOK /\ SockInv
    BY DEF IInv
  <1>2. phase = "reading" /\ got = sent /\ quiet < Tolerance /\ quiet' = quiet + 1
        /\ elapsed' = elapsed + 1 /\ phase' = phase /\ got' = got
        /\ truncated' = truncated
        /\ program' = program /\ sent' = sent /\ sock' = sock /\ died' = died
    BY DEF Tick, guestVars
  <1>3. TypeOK'
    <2>1. quiet' \in 0 .. IdleTimeout
      BY <1>1, <1>2, Ranges, TruthAssumption
    <2>2. elapsed' \in Nat
      BY <1>1, <1>2 DEF TypeOK
    <2> QED BY <1>1, <1>2, <2>1, <2>2 DEF TypeOK
  <1>4. SilenceInv'
    <2> SUFFICES ASSUME sent < Len(program)
                 PROVE  quiet' <= MaxGap /\ ~Faulted(buf)'
      BY <1>2 DEF SilenceInv
    <2>1. quiet < (IF Dumping THEN 0 ELSE MaxGap)
      BY DEF Tick
    <2>2. ~Dumping /\ quiet < MaxGap
      BY <1>1, <2>1, Ranges
    <2>3. ~Faulted(buf)'
      BY <1>2, <2>2 DEF Dumping, Faulted, buf
    <2> QED BY <1>1, <1>2, <2>2, <2>3, Ranges, TruthAssumption
  <1>5. SockInv' /\ CaptureInv'
    BY <1>1, <1>2 DEF SockInv, CaptureInv
  <1> QED BY <1>3, <1>4, <1>5 DEF IInv

(* Every step, and every stutter, keeps the invariant.                       *)
LEMMA NextIInv == IInv /\ [Next]_vars => IInv'
  <1> SUFFICES ASSUME IInv, [Next]_vars PROVE IInv'
    OBVIOUS
  <1>1. CASE Prints \/ Exit \/ Die
    BY <1>1, GuestIInv
  <1>2. CASE Recv
    BY <1>2, RecvIInv
  <1>3. CASE Silence
    BY <1>3, SilenceIInv
  <1>4. CASE Eof \/ SocketError
    BY <1>4, ClosedIInv
  <1>5. CASE Judge
    BY <1>5, JudgeIInv
  <1>6. CASE Tick
    BY <1>6, TickIInv
  <1>7. CASE Over \/ UNCHANGED vars
    <2>1. UNCHANGED vars
      BY <1>7 DEF Over
    <2>2. TypeOK' /\ SockInv' /\ CaptureInv'
      BY <2>1 DEF vars, IInv, TypeOK, SockInv, CaptureInv
    <2>3. SilenceInv'
      BY <2>1 DEF vars, IInv, SilenceInv, Faulted, buf
    <2> QED BY <2>2, <2>3 DEF IInv
  <1> QED BY <1>1, <1>2, <1>3, <1>4, <1>5, <1>6, <1>7 DEF Next, HostStep

(* The invariant holds in every state of every run.                          *)
THEOREM Invariance == Spec => []IInv
  <1> QED BY InitIInv, NextIInv, PTL DEF Spec

(* Every variable keeps to its range.                                        *)
THEOREM TypeCorrect == Spec => []TypeOK
  <1>1. IInv => TypeOK
    BY DEF IInv
  <1> QED BY <1>1, Invariance, PTL

(* Whatever the program prints, however its output is cut into chunks, and   *)
(* whenever its QEMU dies: what is banked as a truth is all of it, or all    *)
(* that a QEMU gave out before an orderly close.                             *)
THEOREM TruthBanked == Spec => []TruthIsWhole
  <1>1. IInv => TruthIsWhole
    <2> SUFFICES ASSUME IInv, phase = "returned"
                 PROVE  IF died THEN sock = "eof" ELSE buf = program
      BY DEF TruthIsWhole
    <2>1. sock # "error" /\ (~died => got = Len(program)) /\ (died => sock # "open")
          /\ sock \in {"open", "eof", "error"}
      BY DEF IInv, CaptureInv, SockInv, TypeOK
    <2>2. CASE died
      BY <2>1, <2>2
    <2>3. CASE ~died
      <3>1. program \in Seq({"line", "exc", "reg"})
        BY TruthAssumption DEF IInv, TypeOK
      <3>2. SubSeq(program, 1, Len(program)) = program
        BY <3>1
      <3> QED BY <2>1, <2>3, <3>2 DEF buf
    <2> QED BY <2>2, <2>3
  <1> QED BY <1>1, Invariance, PTL
=============================================================================
