--------------------------- MODULE GdbStubProofs ---------------------------
(* Proofs about the gdb client, for any number of packets and any cut of the *)
(* stub's stream.                                                            *)
EXTENDS GdbStub, Integers, SequenceTheorems, WellFoundedInduction, TLAPS

Calls == {"drain", "attach", "cont", "stop", "sample", "detach"} \cup Reads \cup Writes \cup Ended

(* The calls that are made only while the VM is, or is about to be, stopped. *)
Halting == {"drain", "attach", "sample"} \cup Reads \cup Writes

Sent == [n : Nat, cmd : {"m", "M", "?", "p", "c", "interrupt", "D"}]

Resumes(cmd) == cmd \in {"c", "D"}

(* The VM is stopped by the time the stub comes to the i-th command before   *)
(* it: it is now and nothing ahead resumes it, or an interrupt is ahead with *)
(* nothing behind it that does.                                              *)
StoppedAt(i) ==
  \/ vm = "stopped" /\ \A k \in 1 .. i - 1 : ~Resumes(inbox[k].cmd)
  \/ \E j \in 1 .. i - 1 : /\ inbox[j].cmd = "interrupt"
                           /\ \A k \in j + 1 .. i - 1 : ~Resumes(inbox[k].cmd)

Typed ==
  /\ at \in Calls /\ sent \in Nat /\ waiting \in BOOLEAN
  /\ waiting => at \notin Ended
  /\ inbox \in Seq(Sent)

(* So it is for every command that touches memory, and at the end of what is *)
(* to be served while the host is at a call that halts or has sent the stop. *)
HaltInv ==
  /\ \A i \in DOMAIN inbox : inbox[i].cmd \in {"m", "M"} => StoppedAt(i)
  /\ at \in Halting \/ (at = "stop" /\ waiting) => StoppedAt(Len(inbox) + 1)

Inv == Typed /\ HaltInv
-----------------------------------------------------------------------------
(* QEMU starts with the VM stopped and nothing sent.                         *)
LEMMA InitHalted == Init => Inv
  <1> SUFFICES ASSUME Init PROVE Inv
    OBVIOUS
  <1>1. inbox = <<>> /\ Len(inbox) = 0 /\ vm = "stopped"
    BY DEF Init
  <1>2. Typed
    <2>1. inbox \in Seq(Sent)
      BY <1>1
    <2> QED BY <2>1 DEF Init, Typed, Calls
  <1>3. StoppedAt(1) /\ DOMAIN inbox = {}
    BY <1>1 DEF StoppedAt
  <1>4. HaltInv
    BY <1>1, <1>3 DEF HaltInv
  <1> QED BY <1>2, <1>4 DEF Inv

(* What may follow a call, and where it comes from.                          *)
LEMMA NextCalls ==
  ASSUME NEW call \in Calls \ Ended, NEW next \in After(call)
  PROVE  next \in Calls /\ (next \in Halting => call \in Halting \cup {"stop"})
  BY DEF Calls, Reads, Writes, Ended, Halting, After, AfterResume

(* A call goes on, returns, or raises; nothing is sent and nothing served.   *)
LEMMA HostMoves ==
  ASSUME Inv, UNCHANGED <<inbox, vm, sent>>,
         \/ UNCHANGED <<at, waiting>>
         \/ at \notin Ended /\ at' \in After(at) /\ waiting' = FALSE /\ (at = "stop" => waiting)
         \/ at' = "failed" /\ waiting' = FALSE
  PROVE  Inv'
  <1>1. Typed'
    <2>1. at' \in Calls
      <3>1. CASE at \notin Ended /\ at' \in After(at)
        BY <3>1, NextCalls DEF Inv, Typed
      <3>2. CASE at' \in {at, "failed"}
        BY <3>2 DEF Inv, Typed, Calls, Ended
      <3> QED BY <3>1, <3>2
    <2>2. waiting' \in BOOLEAN /\ (waiting' => at' \notin Ended)
      <3>1. CASE waiting' = FALSE
        BY <3>1
      <3>2. CASE UNCHANGED <<at, waiting>>
        BY <3>2 DEF Inv, Typed
      <3> QED BY <3>1, <3>2
    <2> QED BY <2>1, <2>2 DEF Inv, Typed
  <1>2. ASSUME NEW i \in Int PROVE StoppedAt(i)' <=> StoppedAt(i)
    BY DEF StoppedAt
  <1>3. at' \in Halting \/ (at' = "stop" /\ waiting') =>
          at \in Halting \/ (at = "stop" /\ waiting)
    BY NextCalls DEF Inv, Typed, Halting, Reads, Writes
  <1>4. HaltInv'
    BY <1>2, <1>3 DEF Inv, Typed, HaltInv
  <1> QED BY <1>1, <1>4 DEF Inv

(* Raising leaves compile_ring, or returns from a call that is no stop.      *)
LEMMA RaiseMoves ==
  ASSUME Inv, Raise, UNCHANGED <<inbox, vm, sent>> PROVE Inv'
  <1>1. CASE at \in {"sample", "detach"}
    BY <1>1, HostMoves DEF Raise, Return, Ended
  <1>2. CASE at \notin {"sample", "detach"}
    BY <1>2, HostMoves DEF Raise
  <1> QED BY <1>1, <1>2

(* What a call sends, by whether it halts.                                   *)
LEMMA Commands ==
  ASSUME NEW call \in Calls \ (Ended \cup {"drain"})
  PROVE  /\ Command(call) \in {"m", "M", "?", "p", "c", "interrupt", "D"}
         /\ Command(call) \in {"m", "M"} => call \in Halting
         /\ call \in Halting => ~Resumes(Command(call))
         /\ call = "stop" => Command(call) = "interrupt"
  <1>1. CASE call \in Reads
    <2>1. Command(call) = "m"
      BY <1>1 DEF Command, Reads, Writes
    <2> QED BY <1>1, <2>1 DEF Reads, Halting, Resumes
  <1>2. CASE call \in Writes
    <2>1. Command(call) = "M"
      BY <1>2 DEF Command, Reads, Writes
    <2> QED BY <1>2, <2>1 DEF Writes, Halting, Resumes
  <1>3. CASE call \in {"attach", "sample"}
    <2>1. Command(call) \in {"?", "p"}
      BY <1>3 DEF Command, Reads, Writes
    <2> QED BY <1>3, <2>1 DEF Resumes
  <1>4. CASE call \in {"cont", "detach"}
    <2>1. Command(call) \in {"c", "D"}
      BY <1>4 DEF Command, Reads, Writes
    <2> QED BY <1>4, <2>1 DEF Reads, Writes, Halting
  <1>5. CASE call = "stop"
    <2>1. Command(call) = "interrupt"
      BY <1>5 DEF Command, Reads, Writes
    <2> QED BY <1>5, <2>1 DEF Reads, Writes, Halting
  <1> QED BY <1>1, <1>2, <1>3, <1>4, <1>5 DEF Calls

(* A packet is sent: it touches memory only from a call that halts, and      *)
(* resumes the VM only from one that does not.                               *)
LEMMA SendMoves ==
  ASSUME Inv, Send PROVE Inv'
  <1>1. CASE ~open
    BY <1>1, RaiseMoves DEF Send, stub
  <1>2. CASE open
    <2> DEFINE packet == [n |-> sent + 1, cmd |-> Command(at)]
    <2>1. at \in Calls \ (Ended \cup {"drain"}) /\ inbox' = Append(inbox, packet)
          /\ waiting' = TRUE /\ at' = at /\ sent' = sent + 1 /\ vm' = vm
      BY <1>2 DEF Send, stub, Inv, Typed
    <2>2. PICK n \in Nat : n = Len(inbox)
      BY DEF Inv, Typed
    <2>3. packet \in Sent /\ inbox \in Seq(Sent)
      BY <2>1, Commands DEF Inv, Typed, Sent
    <2>4. /\ Len(inbox') = n + 1 /\ DOMAIN inbox = 1 .. n
          /\ \A k \in 1 .. n : inbox'[k] = inbox[k]
          /\ inbox'[n + 1].cmd = Command(at) /\ DOMAIN inbox' = 1 .. n + 1
          /\ inbox' \in Seq(Sent)
      BY <2>1, <2>2, <2>3
    <2>5. ASSUME NEW i \in 1 .. n + 1, StoppedAt(i) PROVE StoppedAt(i)'
      <3>1. \A k \in 1 .. i - 1 : inbox'[k] = inbox[k]
        BY <2>4
      <3>2. CASE vm = "stopped" /\ \A k \in 1 .. i - 1 : ~Resumes(inbox[k].cmd)
        BY <2>1, <3>1, <3>2 DEF StoppedAt
      <3>3. ASSUME NEW j \in 1 .. i - 1, inbox[j].cmd = "interrupt",
                   \A k \in j + 1 .. i - 1 : ~Resumes(inbox[k].cmd)
            PROVE  StoppedAt(i)'
        <4>1. \A k \in j + 1 .. i - 1 : inbox'[k] = inbox[k]
          BY <3>1
        <4> QED BY <3>1, <3>3, <4>1 DEF StoppedAt
      <3> QED BY <2>5, <3>2, <3>3 DEF StoppedAt
    <2>6. ASSUME at \in Halting PROVE StoppedAt(n + 1)' /\ StoppedAt(n + 2)'
      <3>1. StoppedAt(n + 1)'
        BY <2>2, <2>5, <2>6 DEF Inv, HaltInv
      <3>2. ~Resumes(inbox'[n + 1].cmd)
        BY <2>1, <2>4, <2>6, Commands
      <3>3. \A j \in Nat : (\A k \in j .. n : ~Resumes(inbox'[k].cmd))
                              => \A k \in j .. n + 1 : ~Resumes(inbox'[k].cmd)
        BY <3>2
      <3>4. CASE vm' = "stopped" /\ \A k \in 1 .. n : ~Resumes(inbox'[k].cmd)
        BY <3>3, <3>4 DEF StoppedAt
      <3>5. ASSUME NEW j \in 1 .. n, inbox'[j].cmd = "interrupt",
                   \A k \in j + 1 .. n : ~Resumes(inbox'[k].cmd)
            PROVE  StoppedAt(n + 2)'
        BY <3>3, <3>5 DEF StoppedAt
      <3> QED BY <3>1, <3>4, <3>5 DEF StoppedAt
    <2>7. ASSUME at = "stop" PROVE StoppedAt(n + 2)'
      <3>1. inbox'[n + 1].cmd = "interrupt"
        BY <2>1, <2>4, <2>7, Commands
      <3> QED BY <3>1 DEF StoppedAt
    <2>8. Typed'
      BY <2>1, <2>4 DEF Inv, Typed
    <2>9. ASSUME NEW i \in 1 .. n + 1, inbox'[i].cmd \in {"m", "M"} PROVE StoppedAt(i)'
      <3>1. CASE i = n + 1
        BY <2>1, <2>4, <2>6, <2>9, <3>1, Commands
      <3>2. CASE i \in 1 .. n
        BY <2>4, <2>5, <2>9, <3>2 DEF Inv, HaltInv
      <3> QED BY <3>1, <3>2
    <2>10. at' \in Halting \/ (at' = "stop" /\ waiting') => StoppedAt(n + 2)'
      BY <2>1, <2>6, <2>7
    <2>11. Len(inbox') + 1 = n + 2
      BY <2>4
    <2>12. HaltInv'
      BY <2>4, <2>9, <2>10, <2>11 DEF HaltInv
    <2> QED BY <2>8, <2>12 DEF Inv
  <1> QED BY <1>1, <1>2

(* The stub serves the first command: what was stopped one place further on  *)
(* is stopped still.                                                         *)
LEMMA ServeMoves ==
  ASSUME Inv, Serve PROVE Inv'
  <1>1. inbox \in Seq(Sent) /\ inbox # <<>> /\ inbox' = Tail(inbox)
        /\ UNCHANGED <<at, waiting, sent>>
    BY DEF Serve, host, Inv, Typed
  <1>2. /\ Len(inbox) \in Nat \ {0} /\ Len(inbox') = Len(inbox) - 1
        /\ DOMAIN inbox' = 1 .. Len(inbox) - 1
        /\ \A k \in 1 .. Len(inbox) - 1 : inbox'[k] = inbox[k + 1]
        /\ Head(inbox) = inbox[1] /\ inbox' \in Seq(Sent)
    BY <1>1
  <1>3. IF Resumes(inbox[1].cmd) THEN vm' = "running"
        ELSE IF inbox[1].cmd = "interrupt" THEN vm' = "stopped" ELSE vm' = vm
    BY <1>2 DEF Serve, Resumes
  <1>4. ASSUME NEW i \in 1 .. Len(inbox), StoppedAt(i + 1) PROVE StoppedAt(i)'
    <2>1. CASE vm = "stopped" /\ \A k \in 1 .. i : ~Resumes(inbox[k].cmd)
      <3>1. vm' = "stopped"
        BY <1>2, <1>3, <2>1
      <3> QED BY <1>2, <2>1, <3>1 DEF StoppedAt
    <2>2. ASSUME NEW j \in 1 .. i, inbox[j].cmd = "interrupt",
                 \A k \in j + 1 .. i : ~Resumes(inbox[k].cmd)
          PROVE  StoppedAt(i)'
      <3>1. CASE j = 1
        <4>1. vm' = "stopped"
          BY <1>3, <2>2, <3>1 DEF Resumes
        <4>2. \A k \in 1 .. i - 1 : ~Resumes(inbox'[k].cmd)
          BY <1>2, <2>2, <3>1
        <4> QED BY <4>1, <4>2 DEF StoppedAt
      <3>2. CASE j > 1
        <4>1. j - 1 \in 1 .. i - 1 /\ inbox'[j - 1].cmd = "interrupt"
          BY <1>2, <2>2, <3>2
        <4>2. ASSUME NEW k \in (j - 1) + 1 .. i - 1 PROVE ~Resumes(inbox'[k].cmd)
          <5>1. inbox'[k] = inbox[k + 1] /\ k + 1 \in j + 1 .. i
            BY <1>2
          <5> QED BY <2>2, <5>1
        <4> QED BY <4>1, <4>2 DEF StoppedAt
      <3> QED BY <3>1, <3>2
    <2> QED BY <1>4, <2>1, <2>2 DEF StoppedAt
  <1>5. Typed'
    BY <1>1, <1>2 DEF Inv, Typed
  <1>6. HaltInv'
    BY <1>1, <1>2, <1>4 DEF Inv, HaltInv
  <1> QED BY <1>5, <1>6 DEF Inv

(* Every step, and every stutter, keeps the invariant.                       *)
LEMMA NextHalted == Inv /\ [Next]_vars => Inv'
  <1> SUFFICES ASSUME Inv, [Next]_vars PROVE Inv'
    OBVIOUS
  <1>1. CASE Drain
    BY <1>1, HostMoves DEF Drain, Return, stub, Ended
  <1>2. CASE Recv
    <2>1. at \notin Ended /\ waiting /\ UNCHANGED <<inbox, vm, sent>>
      <3>1. waiting /\ UNCHANGED <<inbox, vm, sent>>
        BY <1>2 DEF Recv, stub
      <3> QED BY <3>1 DEF Inv, Typed
    <2>2. UNCHANGED <<at, waiting>> \/ Return \/ Raise
      BY <1>2 DEF Recv
    <2> QED BY <2>1, <2>2, HostMoves, RaiseMoves DEF Return
  <1>3. CASE RecvOne
    BY <1>3, HostMoves DEF RecvOne, Return, stub, Ended
  <1>4. CASE NothingCame
    <2>1. CASE at = "cont" /\ Return
      BY <1>4, <2>1, HostMoves DEF NothingCame, Return, stub, Ended
    <2>2. CASE Raise
      BY <1>4, <2>2, RaiseMoves DEF NothingCame, stub
    <2> QED BY <1>4, <2>1, <2>2 DEF NothingCame
  <1>5. CASE Send
    BY <1>5, SendMoves
  <1>6. CASE Serve
    BY <1>6, ServeMoves
  <1>7. CASE Greets \/ Dies \/ Over \/ UNCHANGED vars
    BY <1>7, HostMoves DEF Greets, Dies, Over, vars, host, stub
  <1> QED BY <1>1, <1>2, <1>3, <1>4, <1>5, <1>6, <1>7 DEF Next, HostStep

(* However the stream is cut, delayed or left short, and whatever packet an  *)
(* interrupt took for the stop: memory is touched only with the VM stopped.  *)
THEOREM HaltedOnAccess == Spec => AccessHalted
  <1>1. Inv /\ [Next]_vars => [Touched => vm = "stopped"]_vars
    <2> SUFFICES ASSUME Inv, Touched PROVE vm = "stopped"
      OBVIOUS
    <2>1. 1 \in DOMAIN inbox /\ inbox[1].cmd \in {"m", "M"}
      BY DEF Touched, Inv, Typed
    <2> QED BY <2>1 DEF Inv, HaltInv, StoppedAt
  <1> QED BY <1>1, InitHalted, NextHalted, PTL DEF Spec, AccessHalted
-----------------------------------------------------------------------------
(* Whose reply a call goes by.  What the call has received and what is still *)
(* to be received is one stream; a reply in it, or still to be served, is    *)
(* foreign when it answers a call that has ended.  attach goes by any.       *)
stream == buf \o wire

Tokens == [t : {"$", "#", "+", "body", "checksum"}, of : Nat,
           is : {"mark", "stop", "hex", "OK", "E"}]

Foreign(n) == ~waiting \/ at = "attach" \/ n # sent

(* The commands whose answer is no stop packet.                              *)
Data(cmd) == cmd \in {"m", "M", "p", "D"}

(* The calls that may find a stop packet ahead of their reply; those that    *)
(* find nothing ahead of it; and those that a sample given up on may have    *)
(* left its reply to.                                                        *)
Strange  == {"attach", "head", "poll"}
Clean    == {"set wpos", "set rpos", "back", "fill", "sample", "detach"}
Resuming == {"cont", "stop"}

(* A packet is never cut short: its body follows its beginning.              *)
Whole(s) ==
  \A i \in DOMAIN s : s[i].t = "$" => i + 1 \in DOMAIN s /\ s[i + 1].t = "body"

WireTyped ==
  /\ buf \in Seq(Tokens) /\ wire \in Seq(Tokens)
  /\ open \in BOOLEAN /\ greeted \in BOOLEAN /\ late \in BOOLEAN
  /\ vm \in {"running", "stopped"}
  /\ ~waiting \/ at = "cont" => buf = <<>>
  /\ waiting => sent > 0
  /\ at = "drain" => ~waiting /\ inbox = <<>>
  /\ \A i \in DOMAIN inbox : inbox[i].n = sent - Len(inbox) + i
  /\ \A i \in DOMAIN stream : stream[i].of <= sent
  /\ used.own \in 0 .. sent /\ used.of \in 0 .. sent
  /\ Whole(stream)

StrangeInv ==
  at \in Strange =>
    /\ \A i \in DOMAIN stream :
         stream[i].t = "body" /\ Foreign(stream[i].of) => stream[i].is = "stop"
    /\ \A i \in DOMAIN inbox : Foreign(inbox[i].n) => ~Data(inbox[i].cmd)

CleanInv ==
  at \in Clean =>
    /\ \A i \in DOMAIN stream : stream[i].t = "body" => ~Foreign(stream[i].of)
    /\ \A i \in DOMAIN inbox : ~Foreign(inbox[i].n)
    /\ ~waiting => \A i \in DOMAIN stream : stream[i].t # "#"

(* A reply that is no stop packet comes before any "#", so whoever waits for *)
(* a "#" takes that reply too; and the stub no longer greets.                *)
Ordered ==
  /\ Len(inbox) < sent
  /\ \A i, j \in DOMAIN stream :
       stream[i].t = "#" /\ stream[j].t = "body" /\ stream[j].is # "stop" => j < i
  /\ \A i \in DOMAIN inbox :
       Data(inbox[i].cmd) => i = 1 /\ \A j \in DOMAIN stream : stream[j].t # "#"

OrderInv == at \in Clean \cup Resuming => Ordered

(* Nothing comes after the reply to the call that is waiting.                *)
LastInv ==
  waiting =>
    \A j \in DOMAIN stream : stream[j].t = "body" /\ stream[j].of = sent =>
      /\ inbox = <<>> /\ Len(stream) = j + 2
      /\ stream[j + 1].t = "#" /\ stream[j + 2].t = "checksum"

Sync == WireTyped /\ StrangeInv /\ CleanInv /\ OrderInv /\ LastInv /\ GoesByItsOwn

SyncInv == Inv /\ Sync
-----------------------------------------------------------------------------
(* The stream is the buffer, then what is on the wire.                       *)
LEMMA StreamIs ==
  ASSUME WireTyped
  PROVE  /\ stream \in Seq(Tokens) /\ Len(stream) = Len(buf) + Len(wire)
         /\ DOMAIN stream = 1 .. Len(stream)
         /\ buf = <<>> => stream = wire
  <1>1. stream \in Seq(Tokens) /\ Len(stream) = Len(buf) + Len(wire)
    BY DEF WireTyped, stream
  <1>2. ASSUME buf = <<>> PROVE stream = wire
    BY <1>2 DEF WireTyped, stream
  <1> QED BY <1>1, <1>2

(* However recv cuts the wire, what it adds to the buffer and what it leaves *)
(* are the stream still.                                                     *)
LEMMA CutIs ==
  ASSUME WireTyped, NEW k \in 1 .. Len(wire)
  PROVE  LET b == buf \o SubSeq(wire, 1, k)
             rest == SubSeq(wire, k + 1, Len(wire))
         IN /\ b \in Seq(Tokens) /\ rest \in Seq(Tokens) /\ b \o rest = stream
            /\ Len(b) = Len(buf) + k /\ Len(b) <= Len(stream)
            /\ Len(rest) = Len(stream) - Len(b)
            /\ \A i \in 1 .. Len(b) : b[i] = stream[i]
            /\ \A i \in 1 .. Len(rest) : rest[i] = stream[Len(b) + i]
  <1> DEFINE piece == SubSeq(wire, 1, k)
             rest == SubSeq(wire, k + 1, Len(wire))
             b == buf \o piece
  <1>1. buf \in Seq(Tokens) /\ wire \in Seq(Tokens) /\ Len(buf) \in Nat /\ Len(wire) \in Nat
    BY DEF WireTyped
  <1>2. /\ piece \in Seq(Tokens) /\ Len(piece) = k
        /\ \A i \in 1 .. k : piece[i] = wire[i]
    BY <1>1, SubSeqProperties
  <1>3. /\ rest \in Seq(Tokens) /\ Len(rest) = Len(wire) - k
        /\ \A i \in 1 .. Len(wire) - k : rest[i] = wire[k + i]
    <2>1. \A i \in k + 1 .. Len(wire) : wire[i] \in Tokens
      BY <1>1
    <2> QED BY <1>1, <2>1, SubSeqProperties
  <1> HIDE DEF piece, rest
  <1>4. /\ b \in Seq(Tokens) /\ Len(b) = Len(buf) + k
        /\ \A i \in 1 .. Len(buf) : b[i] = buf[i]
        /\ \A i \in 1 .. k : b[Len(buf) + i] = wire[i]
    BY <1>1, <1>2
  <1>5. /\ stream \in Seq(Tokens) /\ Len(stream) = Len(buf) + Len(wire)
        /\ \A i \in 1 .. Len(buf) : stream[i] = buf[i]
        /\ \A i \in 1 .. Len(wire) : stream[Len(buf) + i] = wire[i]
    BY <1>1 DEF stream
  <1> HIDE DEF b
  <1>6. ASSUME NEW i \in 1 .. Len(b) PROVE b[i] = stream[i]
    <2>1. CASE i <= Len(buf)
      BY <1>1, <1>4, <1>5, <2>1
    <2>2. CASE i > Len(buf)
      <3>1. i - Len(buf) \in 1 .. k /\ i - Len(buf) \in 1 .. Len(wire)
            /\ Len(buf) + (i - Len(buf)) = i
        BY <1>1, <1>4, <2>2
      <3> QED BY <1>4, <1>5, <3>1
    <2> QED BY <1>1, <2>1, <2>2
  <1>7. ASSUME NEW i \in 1 .. Len(rest) PROVE rest[i] = stream[Len(b) + i]
    <2>1. k + i \in 1 .. Len(wire) /\ Len(b) + i = Len(buf) + (k + i)
      BY <1>1, <1>3, <1>4
    <2> QED BY <1>3, <1>5, <2>1
  <1>8. Len(b) <= Len(stream) /\ Len(rest) = Len(stream) - Len(b)
    BY <1>1, <1>3, <1>4, <1>5
  <1>9. b \o rest = stream
    <2>1. /\ b \o rest \in Seq(Tokens) /\ Len(b \o rest) = Len(stream)
          /\ \A i \in 1 .. Len(b) : (b \o rest)[i] = b[i]
          /\ \A i \in 1 .. Len(rest) : (b \o rest)[Len(b) + i] = rest[i]
      <3>1. Len(b) \in Nat /\ Len(rest) \in Nat /\ Len(stream) \in Nat
        BY <1>3, <1>4, <1>5
      <3>2. b \in Seq(Tokens) /\ rest \in Seq(Tokens)
        BY <1>3, <1>4
      <3>3. Len(b \o rest) = Len(b) + Len(rest) /\ b \o rest \in Seq(Tokens)
        BY <3>2
      <3>4. ASSUME NEW i \in 1 .. Len(b) PROVE (b \o rest)[i] = b[i]
        BY <3>2
      <3>5. ASSUME NEW i \in 1 .. Len(rest) PROVE (b \o rest)[Len(b) + i] = rest[i]
        BY <3>2
      <3> QED BY <1>8, <3>1, <3>3, <3>4, <3>5
    <2>2. ASSUME NEW i \in 1 .. Len(stream) PROVE (b \o rest)[i] = stream[i]
      <3>1. CASE i <= Len(b)
        BY <1>4, <1>6, <2>1, <3>1
      <3>2. CASE ~(i <= Len(b))
        <4>1. i - Len(b) \in 1 .. Len(rest) /\ Len(b) + (i - Len(b)) = i
          BY <1>4, <1>5, <1>8, <3>2
        <4> QED BY <1>7, <2>1, <4>1
      <3> QED BY <3>1, <3>2
    <2> QED BY <1>5, <2>1, <2>2
  <1>10. Len(b) = Len(buf) + k
    BY <1>4
  <1> QED BY <1>3, <1>4, <1>6, <1>7, <1>8, <1>9, <1>10 DEF b, rest, piece

(* Numbers have a least one among them.                                      *)
LEMMA LeastIs ==
  ASSUME NEW T \in SUBSET Nat, T # {} PROVE \E x \in T : \A y \in T : x <= y
  <1>1. \E x \in T : \A y \in T : <<y, x>> \notin OpToRel(<, Nat)
    BY NatLessThanWellFounded, WFMin
  <1>2. PICK x \in T : \A y \in T : <<y, x>> \notin OpToRel(<, Nat)
    BY <1>1
  <1>3. \A y \in T : ~(y < x)
    BY <1>2 DEF OpToRel
  <1>4. \A y \in T : y \in Nat
    OBVIOUS
  <1>5. \A y \in T : x <= y
    BY <1>3, <1>4
  <1> QED BY <1>5

(* The first place a mark is found at, from a place on.                      *)
LEMMA IndexIs ==
  ASSUME NEW b \in Seq(Tokens), NEW t, NEW from \in Nat \ {0}
  PROVE  /\ Index(b, t, from) \in Nat
         /\ Index(b, t, from) = 0 => \A i \in from .. Len(b) : b[i].t # t
         /\ Index(b, t, from) # 0 =>
              /\ Index(b, t, from) \in from .. Len(b)
              /\ b[Index(b, t, from)].t = t
  <1> DEFINE places == {i \in from .. Len(b) : b[i].t = t}
  <1>1. CASE places = {}
    <2>1. Index(b, t, from) = 0
      BY <1>1 DEF Index
    <2> QED BY <1>1, <2>1
  <1>2. CASE places # {}
    <2>1. \E i \in places : \A j \in places : i <= j
      <3>1. places \in SUBSET Nat
        OBVIOUS
      <3> HIDE DEF places
      <3> QED BY <1>2, <3>1, LeastIs
    <2>2. Index(b, t, from) \in places
      BY <1>2, <2>1 DEF Index
    <2> QED BY <2>2
  <1> QED BY <1>1, <1>2
(* A reply a call finds is a whole packet of the stream's.                   *)
LEMMA ReplyIs ==
  ASSUME WireTyped, NEW k \in 1 .. Len(wire),
         NEW body \in Reply(buf \o SubSeq(wire, 1, k))
  PROVE  \E j \in DOMAIN stream :
            /\ stream[j] = body /\ body.t = "body" /\ j + 1 <= Len(buf) + k
            /\ body \in Tokens
  <1> DEFINE b == buf \o SubSeq(wire, 1, k)
             start == Index(b, "$", 1)
             end == Index(b, "#", start)
  <1>1. b \in Seq(Tokens) /\ Len(b) = Len(buf) + k /\ Len(b) <= Len(stream)
        /\ \A i \in 1 .. Len(b) : b[i] = stream[i]
    BY CutIs
  <1>2. stream \in Seq(Tokens) /\ DOMAIN stream = 1 .. Len(stream) /\ Whole(stream)
    BY StreamIs DEF WireTyped
  <1> HIDE DEF b
  <1>3. start # 0 /\ end # 0 /\ body = b[start + 1]
    BY DEF Reply, b
  <1>4. start \in 1 .. Len(b) /\ b[start].t = "$"
    BY <1>1, <1>3, IndexIs
  <1>5. end \in start .. Len(b) /\ b[end].t = "#"
    BY <1>1, <1>3, <1>4, IndexIs
  <1> HIDE DEF start, end
  <1>6. Len(b) \in Nat /\ Len(stream) \in Nat
    BY <1>1, <1>2
  <1>7. start + 1 \in DOMAIN stream /\ stream[start + 1].t = "body"
    BY <1>1, <1>2, <1>4, <1>6 DEF Whole
  <1>8. end # start
    BY <1>4, <1>5
  <1>9. end # start + 1
    BY <1>1, <1>5, <1>7
  <1>10. start + 2 <= Len(b)
    BY <1>4, <1>5, <1>6, <1>8, <1>9
  <1>11. body = stream[start + 1]
    BY <1>1, <1>3, <1>4, <1>6, <1>10
  <1>12. body \in Tokens
    BY <1>2, <1>7, <1>11
  <1> QED BY <1>1, <1>7, <1>10, <1>11, <1>12, <1>4

(* A call ends: what is left of the stream is the end of what there was.     *)
LEMMA MovesOn ==
  ASSUME WireTyped, Typed, NEW m \in 0 .. Len(stream), at' # "drain",
         waiting' = FALSE, buf' = <<>>, wire' \in Seq(Tokens),
         Len(wire') = Len(stream) - m,
         \A i \in 1 .. Len(wire') : wire'[i] = stream[m + i],
         UNCHANGED <<sent, inbox, stub>>, late' \in BOOLEAN,
         used'.own \in 0 .. sent, used'.of \in 0 .. sent
  PROVE  WireTyped' /\ LastInv' /\ stream' = wire'
  <1>1. stream \in Seq(Tokens) /\ Len(stream) \in Nat /\ DOMAIN stream = 1 .. Len(stream)
    BY StreamIs
  <1>2. stream' = wire'
    BY DEF stream
  <1>3. PICK n \in Nat : n = Len(stream)
    BY <1>1
  <1>4. DOMAIN wire' = 1 .. n - m /\ \A i \in 1 .. n - m : wire'[i] = stream[m + i]
    BY <1>3
  <1>5. ASSUME NEW i \in DOMAIN stream' PROVE stream'[i].of <= sent'
    <2>1. i \in 1 .. n - m /\ m + i \in DOMAIN stream
      BY <1>1, <1>2, <1>3, <1>4
    <2> QED BY <1>2, <1>4, <2>1 DEF WireTyped
  <1>6. Whole(stream')
    <2> SUFFICES ASSUME NEW i \in DOMAIN stream', stream'[i].t = "$"
                 PROVE  i + 1 \in DOMAIN stream' /\ stream'[i + 1].t = "body"
      BY DEF Whole
    <2>1. i \in 1 .. n - m /\ stream[m + i].t = "$" /\ m + i \in DOMAIN stream
      BY <1>1, <1>2, <1>3, <1>4
    <2>2. (m + i) + 1 \in 1 .. n /\ stream[(m + i) + 1].t = "body"
      BY <1>1, <1>3, <2>1 DEF WireTyped, Whole
    <2>3. i + 1 \in 1 .. n - m /\ m + (i + 1) = (m + i) + 1
      BY <2>1, <2>2
    <2> QED BY <1>2, <1>4, <2>2, <2>3
  <1>7. (buf \in Seq(Tokens))' /\ \A i \in DOMAIN inbox' : inbox'[i].n = sent' - Len(inbox') + i
    BY DEF WireTyped
  <1>8. WireTyped'
    BY <1>5, <1>6, <1>7 DEF WireTyped, stub
  <1> QED BY <1>2, <1>8 DEF LastInv

(* Its own reply was the last there was: only a checksum can be left.        *)
Settled ==
  sent > 0 /\ inbox = <<>> /\ \A i \in DOMAIN stream : stream[i].t = "checksum"

(* A call that begins after that may be any.                                 *)
LEMMA SettledIs == Settled /\ ~waiting => StrangeInv /\ CleanInv /\ OrderInv
  <1> SUFFICES ASSUME Settled, ~waiting PROVE StrangeInv /\ CleanInv /\ OrderInv
    OBVIOUS
  <1>1. Len(inbox) = 0 /\ DOMAIN inbox = {}
    BY DEF Settled
  <1>2. \A i \in DOMAIN stream : stream[i].t # "#" /\ stream[i].t # "body"
    BY DEF Settled
  <1> QED BY <1>1, <1>2 DEF Settled, StrangeInv, CleanInv, OrderInv, Ordered

(* The order is kept by what is left of a stream.                            *)
LEMMA OrderLeft ==
  ASSUME WireTyped, Ordered, NEW m \in 0 .. Len(stream),
         Len(stream') = Len(stream) - m, DOMAIN stream' = 1 .. Len(stream'),
         \A i \in 1 .. Len(stream') : stream'[i] = stream[m + i],
         UNCHANGED <<sent, inbox>>
  PROVE  Ordered'
  <1>1. PICK n \in Nat : n = Len(stream) /\ DOMAIN stream = 1 .. n
    BY StreamIs
  <1>2. DOMAIN stream' = 1 .. n - m /\ \A i \in 1 .. n - m : stream'[i] = stream[m + i]
    BY <1>1
  <1>3. \A i \in 1 .. n - m : m + i \in DOMAIN stream
    BY <1>1
  <1>4. ASSUME NEW i \in DOMAIN stream', NEW j \in DOMAIN stream', stream'[i].t = "#",
               stream'[j].t = "body", stream'[j].is # "stop"
        PROVE  j < i
    <2>1. m + j < m + i
      BY <1>2, <1>3, <1>4 DEF Ordered
    <2> QED BY <1>2, <2>1
  <1>5. ASSUME \A j \in DOMAIN stream : stream[j].t # "#",
               NEW j \in DOMAIN stream'
        PROVE  stream'[j].t # "#"
    BY <1>2, <1>3, <1>5
  <1> QED BY <1>4, <1>5 DEF Ordered

(* Whoever takes a "#" takes with it every reply that is no stop packet.     *)
LEMMA HashTaken ==
  ASSUME WireTyped, Ordered, NEW m \in 0 .. Len(stream), NEW i \in 1 .. m, stream[i].t = "#"
  PROVE  /\ \A j \in DOMAIN stream : j > m /\ stream[j].t = "body" => stream[j].is = "stop"
         /\ \A j \in DOMAIN inbox : ~Data(inbox[j].cmd)
  <1>1. Len(stream) \in Nat /\ DOMAIN stream = 1 .. Len(stream)
    BY StreamIs
  <1>2. i \in DOMAIN stream
    BY <1>1
  <1> QED BY <1>1, <1>2 DEF Ordered
-----------------------------------------------------------------------------
(* At first nothing is sent and the stream is empty.                         *)
LEMMA InitSync == Init => SyncInv
  <1> SUFFICES ASSUME Init PROVE Sync
    BY InitHalted DEF SyncInv
  <1>1. at = "drain" /\ ~waiting /\ inbox = <<>> /\ wire = <<>> /\ buf = <<>>
    BY DEF Init
  <1>2. stream = <<>> /\ DOMAIN stream = {} /\ DOMAIN inbox = {}
    BY <1>1 DEF stream
  <1>3. WireTyped
    <2>1. used.own = 0 /\ used.of = 0 /\ sent = 0
      BY DEF Init
    <2>2. Whole(stream) /\ buf \in Seq(Tokens) /\ wire \in Seq(Tokens)
      BY <1>1, <1>2 DEF Whole
    <2>3. open \in BOOLEAN /\ greeted \in BOOLEAN /\ late \in BOOLEAN /\ vm \in {"running", "stopped"}
      BY DEF Init
    <2> QED BY <1>1, <1>2, <2>1, <2>2, <2>3 DEF WireTyped
  <1>4. used.call = "none"
    BY DEF Init
  <1>5. GoesByItsOwn
    BY <1>4 DEF GoesByItsOwn, Reads, Writes
  <1> QED BY <1>1, <1>3, <1>5 DEF Sync, StrangeInv, CleanInv, OrderInv, LastInv,
             Strange, Clean, Resuming

(* A piece that brings no reply is added to the buffer, and a stub that dies *)
(* takes nothing back.                                                       *)
LEMMA KeepsSync ==
  ASSUME Sync, UNCHANGED <<at, waiting, sent, inbox, used>>, stream' = stream,
         buf' \in Seq(Tokens), wire' \in Seq(Tokens), ~waiting \/ at = "cont" => buf' = <<>>,
         open' \in BOOLEAN, greeted' \in BOOLEAN, late' \in BOOLEAN,
         vm' \in {"running", "stopped"}
  PROVE  Sync'
  <1>1. \A n : Foreign(n)' <=> Foreign(n)
    BY DEF Foreign
  <1>2. WireTyped'
    BY DEF Sync, WireTyped, Whole
  <1>3. StrangeInv'
    BY <1>1 DEF Sync, StrangeInv
  <1>4. CleanInv'
    BY <1>1 DEF Sync, CleanInv
  <1>5. OrderInv'
    BY DEF Sync, OrderInv, Ordered
  <1>6. LastInv'
    BY DEF Sync, LastInv
  <1> QED BY <1>2, <1>3, <1>4, <1>5, <1>6 DEF Sync, GoesByItsOwn

(* A call that raises ends the compile, or was a sample, that may have left  *)
(* its reply behind, or the last of all.                                     *)
LEMMA RaiseSync ==
  ASSUME SyncInv, at \notin Ended \cup {"drain"}, Raise, NEW m \in 0 .. Len(stream),
         wire' \in Seq(Tokens), Len(wire') = Len(stream) - m,
         \A i \in 1 .. Len(wire') : wire'[i] = stream[m + i],
         UNCHANGED <<sent, inbox, stub, used>>
  PROVE  Sync'
  <1>1. waiting' = FALSE /\ buf' = <<>> /\ late' \in BOOLEAN
    BY DEF Raise, Return, SyncInv, Sync, WireTyped
  <1>2. \/ at = "sample" /\ at' \in {"cont", "see wpos"}
        \/ at' \in {"done", "failed"}
    <2>1. After("sample") = {"cont", "see wpos"} /\ After("detach") = {"done"}
      BY DEF After
    <2> QED BY <2>1 DEF Raise, Return
  <1>3. WireTyped' /\ LastInv' /\ stream' = wire'
    BY <1>1, <1>2, MovesOn DEF SyncInv, Sync, Inv, WireTyped
  <1>4. StrangeInv' /\ CleanInv'
    BY <1>2 DEF StrangeInv, CleanInv, Strange, Clean
  <1>5. OrderInv'
    <2>1. CASE at = "sample"
      <3>1. WireTyped /\ Ordered
        BY <2>1 DEF SyncInv, Sync, OrderInv, Clean
      <3>2. Ordered'
        BY <1>3, <3>1, OrderLeft
      <3> QED BY <3>2 DEF OrderInv
    <2>2. CASE at' \in {"done", "failed"}
      BY <2>2 DEF OrderInv, Clean, Resuming
    <2> QED BY <1>2, <2>1, <2>2
  <1>6. GoesByItsOwn'
    BY DEF SyncInv, Sync, GoesByItsOwn
  <1> QED BY <1>3, <1>4, <1>5, <1>6 DEF Sync

(* A reply the call goes by: its own where that is claimed, and then nothing *)
(* follows it.                                                               *)
LEMMA AcceptIs ==
  ASSUME SyncInv, waiting, NEW j \in DOMAIN stream, stream[j].t = "body",
         Accepts(at, stream[j]), at \in Strange \cup Clean, at # "attach"
  PROVE  /\ stream[j].of = sent /\ sent > 0
         /\ inbox = <<>> /\ Len(stream) = j + 2 /\ stream[j + 2].t = "checksum"
  <1>1. stream[j].of = sent
    <2>1. CASE at \in Clean
      BY <2>1 DEF SyncInv, Sync, CleanInv, Foreign
    <2>2. CASE at \in {"head", "poll"}
      <3>1. Accepts(at, stream[j]) <=> stream[j].is = "hex"
        BY <2>2 DEF Accepts, Reads, Writes
      <3>2. stream[j].is # "stop"
        BY <3>1
      <3> QED BY <2>2, <3>2 DEF SyncInv, Sync, StrangeInv, Strange, Foreign
    <2> QED BY <2>1, <2>2 DEF Strange
  <1> QED BY <1>1 DEF SyncInv, Sync, LastInv, WireTyped

(* What a call that went by a reply may be followed by.                      *)
LEMMA Follows ==
  /\ After("attach") = {"head"} /\ After("stop") = {"poll"} /\ After("cont") = {"stop"}
  /\ \A call \in {"see wpos", "see rpos"} : After(call) \subseteq {"see rpos", "failed"}
  /\ After("drain") = {"attach"}
  BY DEF After, AfterResume

(* recv returns with a piece.                                                *)
LEMMA RecvSync ==
  ASSUME SyncInv, Recv PROVE Sync'
  <1>1. waiting /\ at # "cont" /\ UNCHANGED <<sent, stub, inbox>>
    BY DEF Recv
  <1>2. PICK k \in 1 .. Len(wire) :
          LET b == buf \o SubSeq(wire, 1, k)
          IN /\ wire' = SubSeq(wire, k + 1, Len(wire))
             /\ IF ~HashSeen(b) THEN buf' = b /\ UNCHANGED <<at, waiting, late, used>>
                ELSE IF at = "stop" THEN Return /\ UNCHANGED <<late, used>>
                ELSE IF \E body \in Reply(b) : Accepts(at, body)
                  THEN /\ Return /\ UNCHANGED late
                       /\ \E body \in Reply(b) :
                            used' = [call |-> at, own |-> sent, of |-> body.of]
                  ELSE Raise /\ UNCHANGED used
    BY DEF Recv
  <1> DEFINE b == buf \o SubSeq(wire, 1, k)
             m == Len(b)
  <1>3. at \in Calls \ (Ended \cup {"drain", "cont"}) /\ Typed /\ WireTyped
    BY <1>1 DEF SyncInv, Sync, Inv, Typed, WireTyped
  <1>4. /\ b \in Seq(Tokens) /\ wire' \in Seq(Tokens) /\ b \o wire' = stream
        /\ m \in 0 .. Len(stream) /\ m = Len(buf) + k /\ Len(wire') = Len(stream) - m
        /\ \A i \in 1 .. m : b[i] = stream[i]
        /\ \A i \in 1 .. Len(wire') : wire'[i] = stream[m + i]
    <2>1. wire' = SubSeq(wire, k + 1, Len(wire))
      BY <1>2
    <2>2. /\ b \in Seq(Tokens) /\ wire' \in Seq(Tokens) /\ b \o wire' = stream
          /\ m <= Len(stream) /\ m = Len(buf) + k /\ Len(wire') = Len(stream) - m
          /\ \A i \in 1 .. m : b[i] = stream[i]
          /\ \A i \in 1 .. Len(wire') : wire'[i] = stream[m + i]
      BY <1>3, <2>1, CutIs
    <2>3. Len(stream) \in Nat /\ m \in Nat
      BY <1>3, <2>2, StreamIs
    <2> QED BY <2>2, <2>3
  <1>5. Len(stream) \in Nat /\ DOMAIN stream = 1 .. Len(stream)
    BY <1>3, StreamIs
  <1>6. ASSUME stream' = wire', NEW i \in DOMAIN stream'
         PROVE  /\ i \in 1 .. Len(wire') /\ stream'[i] = stream[m + i]
                /\ m + i \in DOMAIN stream /\ m + i > m
    <2>1. wire' \in Seq(Tokens) /\ i \in DOMAIN wire'
      BY <1>4, <1>6
    <2>2. i \in 1 .. Len(wire')
      BY <2>1
    <2>3. m \in Nat /\ Len(stream) \in Nat /\ Len(wire') = Len(stream) - m
      BY <1>4, <1>5
    <2>4. m + i \in 1 .. Len(stream) /\ m + i > m
      BY <2>2, <2>3
    <2>5. stream'[i] = wire'[i] /\ wire'[i] = stream[m + i]
      BY <1>4, <1>6, <2>2
    <2> QED BY <1>5, <2>2, <2>4, <2>5
  <1> HIDE DEF b
  <1>7. CASE ~HashSeen(b)
    <2>1. buf' = b /\ UNCHANGED <<at, waiting, late, used>>
      BY <1>2, <1>7 DEF b
    <2>2. stream' = stream
      BY <1>4, <2>1 DEF stream
    <2> QED BY <1>1, <1>3, <1>4, <2>1, <2>2, KeepsSync DEF SyncInv, Sync, WireTyped, stub
  <1>8. CASE HashSeen(b) /\ at = "stop"
    <2>1. Return /\ UNCHANGED <<late, used>>
      BY <1>2, <1>8 DEF b
    <2>2. waiting' = FALSE /\ buf' = <<>> /\ at' = "poll"
      BY <1>8, <2>1, Follows DEF Return
    <2>3. WireTyped' /\ LastInv' /\ stream' = wire'
      BY <1>1, <1>3, <1>4, <2>1, <2>2, MovesOn DEF WireTyped
    <2>4. Ordered
      BY <1>8 DEF SyncInv, Sync, OrderInv, Resuming
    <2>5. PICK h \in 1 .. m : stream[h].t = "#"
      <3>1. Index(b, "#", 2) \in 2 .. Len(b) /\ b[Index(b, "#", 2)].t = "#"
        BY <1>4, <1>8, IndexIs DEF HashSeen
      <3>2. Index(b, "#", 2) \in 1 .. m
        BY <1>4, <3>1
      <3> QED BY <1>4, <3>1, <3>2
    <2>6. /\ \A j \in DOMAIN stream : j > m /\ stream[j].t = "body" => stream[j].is = "stop"
          /\ \A j \in DOMAIN inbox : ~Data(inbox[j].cmd)
      BY <1>3, <1>4, <2>4, <2>5, HashTaken
    <2>7. ASSUME NEW i \in DOMAIN stream', stream'[i].t = "body"
          PROVE  stream'[i].is = "stop"
      <3>1. stream'[i] = stream[m + i] /\ m + i \in DOMAIN stream /\ m + i > m
        BY <1>6, <2>3
      <3> QED BY <2>6, <2>7, <3>1
    <2>8. StrangeInv'
      BY <1>1, <2>6, <2>7 DEF StrangeInv
    <2> QED BY <2>1, <2>2, <2>3, <2>8 DEF SyncInv, Sync, CleanInv, OrderInv, Clean, Resuming,
               GoesByItsOwn
  <1>9. CASE /\ HashSeen(b)
             /\ at # "stop"
             /\ \E body \in Reply(b) : Accepts(at, body)
    <2>1. Return /\ UNCHANGED late
      BY <1>2, <1>9 DEF b
    <2>2. PICK body \in Reply(b) : used' = [call |-> at, own |-> sent, of |-> body.of]
      BY <1>2, <1>9 DEF b
    <2>3. Accepts(at, body)
      BY <1>9 DEF Reply
    <2>4. PICK j \in DOMAIN stream : /\ stream[j] = body /\ body.t = "body" /\ j + 1 <= m
                                     /\ body \in Tokens
      BY <1>3, <1>4, ReplyIs DEF b
    <2>5. waiting' = FALSE /\ buf' = <<>> /\ at' \in After(at)
      BY <2>1 DEF Return
    <2>6. at' # "drain"
      BY <1>3, <2>5 DEF After, AfterResume, Calls, Reads, Writes, Ended
    <2>7. used'.own \in 0 .. sent /\ used'.of \in 0 .. sent
      BY <1>3, <2>2, <2>4 DEF Typed, WireTyped, Tokens
    <2>8. WireTyped' /\ LastInv' /\ stream' = wire'
      BY <1>1, <1>3, <1>4, <2>1, <2>5, <2>6, <2>7, MovesOn DEF WireTyped
    <2>9. CASE at = "attach"
      <3>1. at' = "head"
        BY <2>5, <2>9, Follows
      <3>2. ASSUME NEW i \in DOMAIN stream', stream'[i].t = "body"
            PROVE  stream'[i].is = "stop"
        <4>1. stream'[i] = stream[m + i] /\ m + i \in DOMAIN stream
          BY <1>6, <2>8
        <4> QED BY <2>9, <3>2, <4>1 DEF SyncInv, Sync, StrangeInv, Strange, Foreign
      <3>3. StrangeInv'
        BY <1>1, <2>9, <3>2 DEF SyncInv, Sync, StrangeInv, Strange, Foreign
      <3>4. GoesByItsOwn'
        BY <2>2, <2>9 DEF GoesByItsOwn, Reads, Writes
      <3> QED BY <2>8, <3>1, <3>3, <3>4 DEF Sync, CleanInv, OrderInv, Clean, Resuming
    <2>10. CASE at \in {"see wpos", "see rpos"}
      <3>1. at' \in {"see rpos", "failed"}
        BY <2>5, <2>10, Follows
      <3>2. GoesByItsOwn'
        BY <2>2, <2>10 DEF GoesByItsOwn
      <3> QED BY <2>8, <3>1, <3>2 DEF Sync, StrangeInv, CleanInv, OrderInv, Strange, Clean, Resuming
    <2>11. CASE at \in (Strange \cup Clean) \ {"attach"}
      <3>1. /\ body.of = sent /\ sent > 0
            /\ inbox = <<>> /\ Len(stream) = j + 2 /\ stream[j + 2].t = "checksum"
        BY <1>1, <2>3, <2>4, <2>11, AcceptIs
      <3>2. ASSUME NEW i \in DOMAIN stream' PROVE stream'[i].t = "checksum"
        <4>1. i \in 1 .. Len(wire') /\ stream'[i] = stream[m + i]
          BY <1>6, <2>8
        <4>2. m + i = j + 2
          BY <1>4, <1>5, <2>4, <3>1, <4>1
        <4> QED BY <3>1, <4>1, <4>2
      <3>3. Settled'
        BY <1>1, <3>1, <3>2 DEF Settled
      <3>4. (Settled /\ ~waiting => StrangeInv /\ CleanInv /\ OrderInv)'
        BY SettledIs, PTL
      <3>5. GoesByItsOwn'
        BY <2>2, <3>1 DEF GoesByItsOwn
      <3> QED BY <2>5, <2>8, <3>3, <3>4, <3>5 DEF Sync
    <2> QED BY <1>3, <1>9, <2>9, <2>10, <2>11 DEF Calls, Strange, Clean, Reads, Writes
  <1>10. CASE /\ HashSeen(b)
             /\ at # "stop"
             /\ ~\E body \in Reply(b) : Accepts(at, body)
    <2>1. Raise /\ UNCHANGED used
      BY <1>2, <1>10 DEF b
    <2> QED BY <1>1, <1>3, <1>4, <2>1, RaiseSync
  <1> QED BY <1>7, <1>8, <1>9, <1>10

(* __init__ drains the wire, then attaches to an empty one.                  *)
LEMMA DrainSync ==
  ASSUME SyncInv, Drain PROVE Sync'
  <1>1. at = "drain" /\ ~waiting /\ buf = <<>> /\ inbox = <<>> /\ WireTyped /\ Typed
    BY DEF Drain, SyncInv, Sync, WireTyped, Inv
  <1>2. Len(stream) \in Nat /\ stream = wire
    BY <1>1, StreamIs
  <1>3. wire' = <<>> /\ buf' = <<>> /\ waiting' = FALSE /\ at' \in {"drain", "attach"}
        /\ UNCHANGED <<sent, late, used, stub, inbox>>
    <2>1. CASE wire # <<>>
      BY <1>1, <2>1 DEF Drain, SyncInv, Inv, Typed
    <2>2. CASE wire = <<>>
      BY <1>1, <2>2, Follows DEF Drain, Return
    <2> QED BY <2>1, <2>2
  <1>4. stream' = <<>> /\ DOMAIN stream' = {} /\ DOMAIN inbox' = {}
    BY <1>1, <1>3 DEF stream
  <1>5. WireTyped'
    <2>1. (buf \in Seq(Tokens) /\ wire \in Seq(Tokens) /\ Whole(stream))'
      BY <1>3, <1>4 DEF Whole
    <2> QED BY <1>1, <1>3, <1>4, <2>1 DEF WireTyped, stub
  <1>6. (StrangeInv /\ LastInv)'
    BY <1>3, <1>4 DEF StrangeInv, LastInv
  <1>7. (CleanInv /\ OrderInv /\ GoesByItsOwn)'
    BY <1>3 DEF CleanInv, OrderInv, Clean, Resuming, SyncInv, Sync, GoesByItsOwn
  <1> QED BY <1>5, <1>6, <1>7 DEF Sync

(* cont_nowait takes a byte, whatever it is.                                 *)
LEMMA RecvOneSync ==
  ASSUME SyncInv, RecvOne PROVE Sync'
  <1>1. at = "cont" /\ buf = <<>> /\ WireTyped /\ Typed /\ Ordered
        /\ wire # <<>> /\ wire' = Tail(wire) /\ waiting' = FALSE /\ buf' = <<>> /\ at' = "stop"
        /\ UNCHANGED <<sent, late, used, stub, inbox>>
    BY Follows DEF RecvOne, Return, SyncInv, Sync, WireTyped, Inv, OrderInv, Resuming
  <1>2. stream = wire /\ wire \in Seq(Tokens)
    BY <1>1, StreamIs DEF WireTyped
  <1>3. /\ wire' \in Seq(Tokens) /\ Len(wire') = Len(wire) - 1 /\ 1 \in 0 .. Len(wire)
        /\ \A i \in 1 .. Len(wire') : wire'[i] = wire[1 + i]
    BY <1>1, <1>2
  <1>4. WireTyped' /\ LastInv' /\ stream' = wire'
    <2>1. late' \in BOOLEAN /\ used'.own \in 0 .. sent /\ used'.of \in 0 .. sent
      BY <1>1 DEF WireTyped
    <2> QED BY <1>1, <1>2, <1>3, <2>1, MovesOn
  <1>5. Ordered'
    <2>1. DOMAIN wire' = 1 .. Len(wire')
      BY <1>3
    <2> QED BY <1>1, <1>2, <1>3, <1>4, <2>1, OrderLeft
  <1>6. (StrangeInv /\ CleanInv /\ OrderInv /\ GoesByItsOwn)'
    BY <1>1, <1>5 DEF StrangeInv, CleanInv, OrderInv, Strange, Clean, SyncInv, Sync, GoesByItsOwn
  <1> QED BY <1>4, <1>6 DEF Sync

(* A recv that times out, or finds the end of the stream.                    *)
LEMMA NothingCameSync ==
  ASSUME SyncInv, NothingCame PROVE Sync'
  <1>1. waiting /\ wire = <<>> /\ WireTyped /\ Typed
        /\ UNCHANGED <<sent, used, stub, inbox, wire>>
    BY DEF NothingCame, SyncInv, Sync, Inv
  <1>2. at \notin Ended \cup {"drain"}
    BY <1>1 DEF Typed, WireTyped
  <1>3. Len(stream) \in Nat
    BY <1>1, StreamIs
  <1>4. wire' \in Seq(Tokens) /\ Len(wire') = 0
    BY <1>1
  <1>5. Len(wire') = Len(stream) - Len(stream)
        /\ \A i \in 1 .. Len(wire') : wire'[i] = stream[Len(stream) + i]
    BY <1>3, <1>4
  <1>6. CASE Raise
    BY <1>1, <1>2, <1>3, <1>4, <1>5, <1>6, RaiseSync
  <1>7. CASE at = "cont" /\ Return /\ UNCHANGED late
    <2>1. waiting' = FALSE /\ buf' = <<>> /\ at' = "stop"
      BY <1>7, Follows DEF Return
    <2>2. WireTyped' /\ LastInv' /\ stream' = wire'
      <3>1. late' \in BOOLEAN /\ used'.own \in 0 .. sent /\ used'.of \in 0 .. sent
        BY <1>1, <1>7 DEF WireTyped
      <3>2. Len(stream) \in 0 .. Len(stream) /\ at' # "drain" /\ UNCHANGED <<sent, inbox, stub>>
        BY <1>1, <1>3, <2>1
      <3> QED BY <1>1, <1>4, <1>5, <2>1, <3>1, <3>2, MovesOn
    <2>3. Ordered'
      <3>1. Ordered
        BY <1>7 DEF SyncInv, Sync, OrderInv, Resuming
      <3>2. DOMAIN wire' = 1 .. Len(wire')
        BY <1>4
      <3> QED BY <1>1, <1>3, <1>5, <2>2, <3>1, <3>2, OrderLeft
    <2>4. (StrangeInv /\ CleanInv /\ OrderInv /\ GoesByItsOwn)'
      BY <1>1, <2>1, <2>3 DEF StrangeInv, CleanInv, OrderInv, Strange, Clean, SyncInv, Sync,
         GoesByItsOwn
    <2> QED BY <2>2, <2>4 DEF Sync
  <1> QED BY <1>6, <1>7 DEF NothingCame

(* A packet is sent: all that is still to come before its reply is foreign.  *)
LEMMA SendSync ==
  ASSUME SyncInv, Send PROVE Sync'
  <1>1. at \notin Ended \cup {"drain"} /\ ~waiting /\ buf = <<>> /\ WireTyped /\ Typed
        /\ UNCHANGED <<used, stub, wire>>
    BY DEF Send, SyncInv, Sync, Inv, WireTyped
  <1>2. stream = wire /\ stream \in Seq(Tokens) /\ DOMAIN stream = 1 .. Len(stream)
    BY <1>1, StreamIs
  <1>3. CASE ~open
    <2>1. Raise /\ UNCHANGED <<sent, inbox>>
      BY <1>3 DEF Send
    <2>2. /\ wire' \in Seq(Tokens) /\ 0 \in 0 .. Len(stream) /\ Len(wire') = Len(stream) - 0
          /\ \A i \in 1 .. Len(wire') : wire'[i] = stream[0 + i]
      BY <1>1, <1>2
    <2> QED BY <1>1, <2>1, <2>2, RaiseSync
  <1>4. CASE open
    <2> DEFINE packet == [n |-> sent + 1, cmd |-> Command(at)]
    <2>1. waiting' = TRUE /\ sent' = sent + 1 /\ inbox' = Append(inbox, packet)
          /\ UNCHANGED <<at, buf, late>>
      BY <1>4 DEF Send
    <2>2. stream' = stream
      BY <1>1, <2>1 DEF stream
    <2>3. PICK n \in Nat : n = Len(inbox) /\ DOMAIN inbox = 1 .. n
      BY <1>1 DEF Typed
    <2>4. /\ Len(inbox') = n + 1 /\ DOMAIN inbox' = 1 .. n + 1
          /\ \A i \in 1 .. n : inbox'[i] = inbox[i]
          /\ inbox'[n + 1].n = sent + 1 /\ inbox'[n + 1].cmd = Command(at)
      BY <1>1, <2>1, <2>3 DEF Typed
    <2>5. sent \in Nat /\ \A i \in DOMAIN stream : stream[i].of \in Nat
      <3>1. \A i \in DOMAIN stream : stream[i] \in Tokens
        BY <1>2
      <3> QED BY <1>1, <3>1 DEF Typed, Tokens
    <2>6. \A i \in DOMAIN stream : stream[i].of <= sent /\ stream[i].of # sent'
      BY <1>1, <2>1, <2>5 DEF WireTyped
    <2>7. WireTyped'
      <3>1. \A i \in DOMAIN inbox' : inbox'[i].n = sent' - Len(inbox') + i
        BY <1>1, <2>1, <2>3, <2>4, <2>5 DEF WireTyped
      <3>2. \A i \in DOMAIN stream' : stream'[i].of <= sent'
        BY <2>1, <2>2, <2>5, <2>6
      <3>3. used'.own \in 0 .. sent' /\ used'.of \in 0 .. sent'
        BY <1>1, <2>1, <2>5 DEF WireTyped
      <3> QED BY <1>1, <2>1, <2>2, <2>5, <3>1, <3>2, <3>3 DEF WireTyped, stub
    <2>8. StrangeInv'
      <3> USE DEF Foreign
      <3>1. CASE at \in Strange
        <4>1. \A i \in DOMAIN stream : stream[i].t = "body" => stream[i].is = "stop"
          BY <1>1, <3>1 DEF SyncInv, Sync, StrangeInv, Foreign
        <4>2. \A i \in 1 .. n : ~Data(inbox[i].cmd)
          BY <1>1, <2>3, <3>1 DEF SyncInv, Sync, StrangeInv, Foreign
        <4>3. at = "attach" \/ inbox'[n + 1].n # sent' => ~Data(inbox'[n + 1].cmd)
          <5>1. CASE at = "attach"
            BY <2>4, <5>1 DEF Command, Data, Reads, Writes
          <5>2. CASE at # "attach"
            BY <2>1, <2>4, <5>2
          <5> QED BY <5>1, <5>2
        <4>4. ASSUME NEW i \in DOMAIN inbox', at = "attach" \/ inbox'[i].n # sent'
              PROVE  ~Data(inbox'[i].cmd)
          <5>1. i \in 1 .. n \/ i = n + 1
            BY <2>4
          <5> QED BY <2>4, <4>2, <4>3, <4>4, <5>1
        <4> QED BY <2>1, <2>2, <4>1, <4>4 DEF StrangeInv
      <3> QED BY <2>1, <3>1 DEF StrangeInv
    <2>9. ASSUME at \in Clean
          PROVE  n = 0 /\ \A i \in DOMAIN stream : stream[i].t \notin {"body", "#"}
      <3>1. \A i \in 1 .. n : FALSE
        BY <1>1, <2>3, <2>9 DEF SyncInv, Sync, CleanInv, Foreign
      <3>2. \A i \in DOMAIN stream : stream[i].t \notin {"body", "#"}
        BY <1>1, <2>9 DEF SyncInv, Sync, CleanInv, Foreign
      <3>3. n = 0
        BY <3>1
      <3> QED BY <3>2, <3>3
    <2>10. CleanInv'
      <3>1. CASE at \in Clean
        <4>1. \A i \in DOMAIN inbox' : inbox'[i].n = sent'
          BY <2>1, <2>4, <2>9, <3>1
        <4>2. \A k : Foreign(k)' => k # sent'
          BY <2>1, <3>1 DEF Foreign, Clean
        <4>3. \A i \in DOMAIN stream' : stream'[i].t # "body"
          BY <2>2, <2>9, <3>1
        <4> QED BY <2>1, <4>1, <4>2, <4>3 DEF CleanInv
      <3> QED BY <2>1, <3>1 DEF CleanInv
    <2>11. OrderInv'
      <3>1. CASE at \in Clean
        <4>1. n + 1 < sent + 1
          BY <2>3, <2>5, <3>1 DEF SyncInv, Sync, OrderInv, Ordered
        <4>2. \A i \in DOMAIN inbox' : i = 1
          BY <2>4, <2>9, <3>1
        <4>3. Len(inbox') < sent'
          BY <2>1, <2>4, <4>1
        <4> QED BY <2>2, <2>9, <3>1, <4>2, <4>3 DEF OrderInv, Ordered
      <3>2. CASE at \in Resuming
        <4>1. Ordered
          BY <3>2 DEF SyncInv, Sync, OrderInv
        <4>2. Command(at) \in {"c", "interrupt"}
          BY <3>2 DEF Resuming, Command, Reads, Writes
        <4>3. ~Data(inbox'[n + 1].cmd)
          BY <2>4, <4>2 DEF Data
        <4>4. Len(inbox') < sent'
          BY <2>1, <2>3, <2>4, <2>5, <4>1 DEF Ordered
        <4>5. \A i \in DOMAIN inbox' : i \in DOMAIN inbox \/ i = n + 1
          BY <2>3, <2>4
        <4>6. ASSUME NEW i \in DOMAIN inbox', Data(inbox'[i].cmd)
              PROVE  i = 1 /\ \A j \in DOMAIN stream : stream[j].t # "#"
          <5>1. i \in DOMAIN inbox /\ inbox'[i] = inbox[i]
            BY <2>3, <2>4, <4>3, <4>5, <4>6
          <5> QED BY <4>1, <4>6, <5>1 DEF Ordered
        <4> QED BY <2>2, <4>1, <4>4, <4>6 DEF OrderInv, Ordered
      <3> QED BY <2>1, <3>1, <3>2 DEF OrderInv
    <2>12. LastInv'
      BY <2>2, <2>6 DEF LastInv
    <2>13. GoesByItsOwn'
      BY <1>1 DEF SyncInv, Sync, GoesByItsOwn
    <2> QED BY <2>7, <2>8, <2>10, <2>11, <2>12, <2>13 DEF Sync
  <1> QED BY <1>3, <1>4
-----------------------------------------------------------------------------
(* What the stub says in one step, of the n-th command: at most one packet,  *)
(* and nothing after it.                                                     *)
Said(toks, n, stops) ==
  /\ toks \in Seq(Tokens) /\ Whole(toks)
  /\ \A i \in DOMAIN toks : toks[i].of <= n
  /\ \A i \in DOMAIN toks : toks[i].t = "body" =>
       /\ toks[i].of = n /\ (stops => toks[i].is = "stop")
       /\ Len(toks) = i + 2 /\ toks[i + 1].t = "#" /\ toks[i + 2].t = "checksum"
  /\ \A i \in DOMAIN toks : toks[i].t = "#" => i + 1 = Len(toks)

(* So it is with a packet, an ack before a packet, an ack, and nothing.      *)
LEMMA PacketSaid ==
  ASSUME NEW n \in Nat, NEW kind \in {"stop", "hex", "OK", "E"}, NEW stops \in BOOLEAN,
         stops => kind = "stop"
  PROVE  /\ Said(Packet(n, kind), n, stops)
         /\ Said(<<Token("+")>> \o Packet(n, kind), n, stops)
  <1>1. PICK d, bd, h, c, p :
          /\ d = Token("$") /\ bd = [t |-> "body", of |-> n, is |-> kind]
          /\ h = Token("#") /\ c = Token("checksum") /\ p = Token("+")
    OBVIOUS
  <1>2. /\ {d, bd, h, c, p} \subseteq Tokens
        /\ d.t = "$" /\ bd.t = "body" /\ h.t = "#" /\ c.t = "checksum" /\ p.t = "+"
        /\ d.of = 0 /\ bd.of = n /\ h.of = 0 /\ c.of = 0 /\ p.of = 0 /\ bd.is = kind
    BY <1>1 DEF Token, Tokens
  <1>3. Packet(n, kind) = <<d, bd, h, c>> /\ <<Token("+")>> = <<p>>
    BY <1>1 DEF Packet
  <1>4. ASSUME NEW s, s = <<d, bd, h, c>> PROVE Said(s, n, stops)
    <2>1. /\ s \in Seq(Tokens) /\ DOMAIN s = 1 .. 4 /\ Len(s) = 4
          /\ s[1] = d /\ s[2] = bd /\ s[3] = h /\ s[4] = c
      BY <1>2, <1>4
    <2>2. \A i \in 1 .. 4 : i = 1 \/ i = 2 \/ i = 3 \/ i = 4
      OBVIOUS
    <2>3. 2 \in 1 .. 4
      OBVIOUS
    <2>4. Whole(s)
      BY <1>2, <2>1, <2>2, <2>3 DEF Whole
    <2> QED BY <1>2, <2>1, <2>2, <2>4 DEF Said
  <1>5. ASSUME NEW s, s = <<p>> \o <<d, bd, h, c>> PROVE Said(s, n, stops)
    <2>1. /\ s \in Seq(Tokens) /\ DOMAIN s = 1 .. 5 /\ Len(s) = 5
          /\ s[1] = p /\ s[2] = d /\ s[3] = bd /\ s[4] = h /\ s[5] = c
      <3>1. <<p>> \in Seq(Tokens) /\ <<d, bd, h, c>> \in Seq(Tokens)
        BY <1>2
      <3> QED BY <1>5, <3>1
    <2>2. \A i \in 1 .. 5 : i = 1 \/ i = 2 \/ i = 3 \/ i = 4 \/ i = 5
      OBVIOUS
    <2>3. 3 \in 1 .. 5
      OBVIOUS
    <2>4. Whole(s)
      BY <1>2, <2>1, <2>2, <2>3 DEF Whole
    <2> QED BY <1>2, <2>1, <2>2, <2>4 DEF Said
  <1> QED BY <1>3, <1>4, <1>5

LEMMA AckSaid ==
  ASSUME NEW n \in Nat, NEW stops
  PROVE  Said(<<Token("+")>>, n, stops) /\ Said(<<>>, n, stops)
  <1>1. Token("+") \in Tokens /\ Token("+").t = "+" /\ Token("+").of = 0
    BY DEF Token, Tokens
  <1>2. PICK p : p = Token("+")
    OBVIOUS
  <1>3. \A i \in DOMAIN <<p>> : i = 1 /\ <<p>>[i] = p
    OBVIOUS
  <1> QED BY <1>1, <1>2, <1>3 DEF Said, Whole

(* What is said joins the end of the stream.                                 *)
LEMMA SayIs ==
  ASSUME WireTyped, NEW toks, NEW n \in 0 .. sent, NEW stops, Said(toks, n, stops),
         wire' = wire \o toks, buf' = buf, sent' = sent, sent \in Nat
  PROVE  /\ wire' \in Seq(Tokens) /\ Whole(stream')
         /\ \A i \in DOMAIN stream' : stream'[i].of <= sent'
         /\ \A i \in DOMAIN stream : i \in DOMAIN stream' /\ stream'[i] = stream[i]
         /\ \A i \in DOMAIN stream' :
              \/ i \in DOMAIN stream
              \/ /\ i > Len(stream)
                 /\ stream'[i].t = "body" =>
                      /\ stream'[i].of = n /\ (stops => stream'[i].is = "stop")
                      /\ Len(stream') = i + 2
                      /\ stream'[i + 1].t = "#" /\ stream'[i + 2].t = "checksum"
                 /\ stream'[i].t = "#" => i + 1 = Len(stream')
  <1>1. PICK a \in Nat : a = Len(stream) /\ stream \in Seq(Tokens) /\ DOMAIN stream = 1 .. a
    BY StreamIs
  <1>2. PICK l \in Nat : l = Len(toks) /\ toks \in Seq(Tokens) /\ DOMAIN toks = 1 .. l
    BY DEF Said
  <1>3. wire' \in Seq(Tokens) /\ stream' = stream \o toks
    BY <1>2 DEF WireTyped, stream
  <1>4. /\ Len(stream') = a + l /\ DOMAIN stream' = 1 .. a + l
        /\ \A i \in 1 .. a : stream'[i] = stream[i]
        /\ \A i \in 1 .. l : stream'[a + i] = toks[i]
    BY <1>1, <1>2, <1>3
  <1>5. ASSUME NEW i \in 1 .. a + l, ~(i \in 1 .. a)
        PROVE  i - a \in 1 .. l /\ a + (i - a) = i /\ stream'[i] = toks[i - a]
    <2>1. i - a \in 1 .. l /\ a + (i - a) = i
      BY <1>5
    <2> QED BY <1>4, <2>1
  <1>6. Whole(stream')
    <2> SUFFICES ASSUME NEW i \in 1 .. a + l, stream'[i].t = "$"
                 PROVE  i + 1 \in 1 .. a + l /\ stream'[i + 1].t = "body"
      BY <1>4 DEF Whole
    <2>1. CASE i \in 1 .. a
      <3>1. i + 1 \in 1 .. a /\ stream[i + 1].t = "body"
        BY <1>1, <1>4, <2>1 DEF WireTyped, Whole
      <3> QED BY <1>4, <3>1
    <2>2. CASE ~(i \in 1 .. a)
      <3>1. (i - a) + 1 \in 1 .. l /\ toks[(i - a) + 1].t = "body"
        <4>1. i - a \in 1 .. l /\ toks[i - a].t = "$"
          BY <1>5, <2>2
        <4>2. Whole(toks)
          BY DEF Said
        <4> QED BY <1>2, <4>1, <4>2 DEF Whole
      <3>2. a + ((i - a) + 1) = i + 1 /\ i + 1 \in 1 .. a + l
        BY <3>1
      <3>3. stream'[a + ((i - a) + 1)] = toks[(i - a) + 1]
        BY <1>4, <3>1
      <3> QED BY <3>1, <3>2, <3>3
    <2> QED BY <2>1, <2>2
  <1>7. ASSUME NEW i \in 1 .. a + l PROVE stream'[i].of <= sent'
    <2>1. CASE i \in 1 .. a
      BY <1>1, <1>4, <2>1 DEF WireTyped
    <2>2. CASE ~(i \in 1 .. a)
      <3>1. toks[i - a].of <= n /\ toks[i - a] \in Tokens
        <4>1. i - a \in 1 .. l
          BY <1>5, <2>2
        <4>2. i - a \in DOMAIN toks
          BY <1>2, <4>1
        <4>3. \A h \in DOMAIN toks : toks[h].of <= n
          BY DEF Said
        <4> QED BY <1>2, <4>2, <4>3
      <3>2. toks[i - a].of \in Nat
        BY <3>1 DEF Tokens
      <3> QED BY <1>5, <2>2, <3>1, <3>2
    <2> QED BY <2>1, <2>2
  <1>8. ASSUME NEW i \in 1 .. a + l, ~(i \in 1 .. a)
        PROVE  /\ i > a
               /\ stream'[i].t = "body" =>
                    /\ stream'[i].of = n /\ (stops => stream'[i].is = "stop")
                    /\ a + l = i + 2
                    /\ stream'[i + 1].t = "#" /\ stream'[i + 2].t = "checksum"
               /\ stream'[i].t = "#" => i + 1 = a + l
    <2>1. i > a /\ i - a \in 1 .. l /\ stream'[i] = toks[i - a]
      BY <1>5, <1>8
    <2>2. ASSUME stream'[i].t = "body"
          PROVE  /\ stream'[i].of = n /\ (stops => stream'[i].is = "stop")
                 /\ a + l = i + 2
                 /\ stream'[i + 1].t = "#" /\ stream'[i + 2].t = "checksum"
      <3>1. /\ toks[i - a].of = n /\ (stops => toks[i - a].is = "stop") /\ l = (i - a) + 2
            /\ toks[(i - a) + 1].t = "#" /\ toks[(i - a) + 2].t = "checksum"
        BY <1>2, <2>1, <2>2 DEF Said
      <3>2. /\ a + ((i - a) + 1) = i + 1 /\ a + ((i - a) + 2) = i + 2
            /\ (i - a) + 1 \in 1 .. l /\ (i - a) + 2 \in 1 .. l
        BY <2>1, <3>1
      <3>3. stream'[a + ((i - a) + 1)] = toks[(i - a) + 1]
            /\ stream'[a + ((i - a) + 2)] = toks[(i - a) + 2]
        BY <1>4, <3>2
      <3>4. stream'[i + 1].t = "#" /\ stream'[i + 2].t = "checksum"
        BY <3>1, <3>2, <3>3
      <3> QED BY <2>1, <3>1, <3>4
    <2>3. ASSUME stream'[i].t = "#" PROVE i + 1 = a + l
      BY <1>2, <2>1, <2>3 DEF Said
    <2> QED BY <2>1, <2>2, <2>3
  <1>9. \A i \in DOMAIN stream : i \in DOMAIN stream' /\ stream'[i] = stream[i]
    BY <1>1, <1>4
  <1>10. \A i \in DOMAIN stream' : i \notin DOMAIN stream => i \in 1 .. a + l /\ ~(i \in 1 .. a)
    BY <1>1, <1>4
  <1>11. \A i \in DOMAIN stream' : stream'[i].of <= sent'
    BY <1>4, <1>7
  <1>12. ASSUME NEW i \in DOMAIN stream', i \notin DOMAIN stream
         PROVE  /\ i > Len(stream)
                /\ stream'[i].t = "body" =>
                     /\ stream'[i].of = n /\ (stops => stream'[i].is = "stop")
                     /\ Len(stream') = i + 2
                     /\ stream'[i + 1].t = "#" /\ stream'[i + 2].t = "checksum"
                /\ stream'[i].t = "#" => i + 1 = Len(stream')
    BY <1>1, <1>4, <1>8, <1>10, <1>12
  <1> QED BY <1>3, <1>6, <1>9, <1>11, <1>12
(* The stub serves the first command, and says what it says of it.           *)
LEMMA ServeSync ==
  ASSUME SyncInv, Serve PROVE Sync'
  <1>1. WireTyped /\ Typed /\ inbox # <<>> /\ inbox' = Tail(inbox)
        /\ UNCHANGED <<at, waiting, buf, sent, late, used, open, greeted>>
    BY DEF Serve, host, SyncInv, Sync, Inv
  <1>2. PICK l \in Nat \ {0} : l = Len(inbox) /\ DOMAIN inbox = 1 .. l /\ inbox \in Seq(Sent)
    BY <1>1 DEF Typed
  <1>3. /\ Len(inbox') = l - 1 /\ DOMAIN inbox' = 1 .. l - 1 /\ Head(inbox) = inbox[1]
        /\ \A i \in 1 .. l - 1 : inbox'[i] = inbox[i + 1]
        /\ l = 1 => inbox' = <<>>
    BY <1>1, <1>2
  <1>4. inbox[1].n = sent - l + 1 /\ inbox[1].n \in 0 .. sent /\ sent \in Nat
        /\ (inbox[1].n = sent => l = 1)
    <2>1. 1 \in DOMAIN inbox /\ inbox[1] \in Sent
      BY <1>2
    <2>2. inbox[1].n \in Nat
      BY <2>1 DEF Sent
    <2>3. inbox[1].n = sent - Len(inbox) + 1
      BY <1>1, <2>1 DEF WireTyped
    <2>4. sent \in Nat
      BY <1>1 DEF Typed
    <2> QED BY <1>2, <2>2, <2>3, <2>4
  <1> DEFINE n == inbox[1].n
             stops == ~Data(inbox[1].cmd)
  <1>5. PICK toks : wire' = wire \o toks /\ Said(toks, n, stops)
    <2> DEFINE cmd == inbox[1].cmd
    <2>1. n \in Nat /\ stops \in BOOLEAN /\ wire = wire \o <<>>
      BY <1>1, <1>4 DEF WireTyped, Data
    <2>2. ASSUME NEW kind \in {"stop", "hex", "OK", "E"}, stops => kind = "stop",
                 wire' = wire \o Packet(n, kind) \/ Answer(n, kind)
          PROVE  \E toks : wire' = wire \o toks /\ Said(toks, n, stops)
      BY <2>1, <2>2, PacketSaid DEF Answer, Say
    <2>3. ASSUME Say(<<Token("+")>>) \/ wire' = wire
          PROVE  \E toks : wire' = wire \o toks /\ Said(toks, n, stops)
      BY <2>1, <2>3, AckSaid DEF Say
    <2>4. \/ cmd = "?" /\ Answer(n, "stop")
          \/ cmd \in {"m", "p"} /\ \E kind \in {"hex", "E"} : Answer(n, kind)
          \/ cmd = "M" /\ \E kind \in {"OK", "E"} : Answer(n, kind)
          \/ cmd = "c" /\ Say(<<Token("+")>>)
          \/ cmd = "D" /\ Answer(n, "OK")
          \/ cmd = "interrupt" /\ Say(Packet(n, "stop"))
          \/ cmd = "interrupt" /\ wire' = wire
      BY <1>3 DEF Serve
    <2>5. CASE cmd = "?" /\ Answer(n, "stop")
      BY <2>2, <2>5
    <2>6. CASE cmd \in {"m", "p"} /\ \E kind \in {"hex", "E"} : Answer(n, kind)
      BY <2>2, <2>6 DEF Data
    <2>7. CASE cmd = "M" /\ \E kind \in {"OK", "E"} : Answer(n, kind)
      BY <2>2, <2>7 DEF Data
    <2>8. CASE cmd = "D" /\ Answer(n, "OK")
      BY <2>2, <2>8 DEF Data
    <2>9. CASE cmd = "interrupt" /\ Say(Packet(n, "stop"))
      BY <2>2, <2>9 DEF Say
    <2>10. CASE Say(<<Token("+")>>) \/ wire' = wire
      BY <2>3, <2>10
    <2> QED BY <2>4, <2>5, <2>6, <2>7, <2>8, <2>9, <2>10
  <1> HIDE DEF n, stops
  <1>6. n \in 0 .. sent /\ stops = ~Data(inbox[1].cmd)
    BY <1>4 DEF n, stops
  <1>7. /\ wire' \in Seq(Tokens) /\ Whole(stream')
        /\ \A i \in DOMAIN stream' : stream'[i].of <= sent'
        /\ \A i \in DOMAIN stream : i \in DOMAIN stream' /\ stream'[i] = stream[i]
        /\ \A i \in DOMAIN stream' :
             \/ i \in DOMAIN stream
             \/ /\ i > Len(stream)
                /\ stream'[i].t = "body" =>
                     /\ stream'[i].of = n /\ (stops => stream'[i].is = "stop")
                     /\ Len(stream') = i + 2
                     /\ stream'[i + 1].t = "#" /\ stream'[i + 2].t = "checksum"
                /\ stream'[i].t = "#" => i + 1 = Len(stream')
    BY <1>1, <1>4, <1>5, <1>6, SayIs
  <1>8. \A k : Foreign(k)' <=> Foreign(k)
    BY <1>1 DEF Foreign
  <1>9. \A i \in DOMAIN inbox' : i + 1 \in DOMAIN inbox /\ inbox'[i] = inbox[i + 1]
    BY <1>2, <1>3
  <1>10. PICK a \in Nat : a = Len(stream) /\ DOMAIN stream = 1 .. a
    BY <1>1, StreamIs
  <1>11. WireTyped'
    <2>1. \A i \in DOMAIN inbox' : inbox'[i].n = sent' - Len(inbox') + i
      <3> SUFFICES ASSUME NEW i \in DOMAIN inbox' PROVE inbox'[i].n = sent' - Len(inbox') + i
        OBVIOUS
      <3>1. i \in 1 .. l - 1 /\ inbox'[i] = inbox[i + 1] /\ i + 1 \in DOMAIN inbox
        BY <1>3, <1>9
      <3>2. inbox[i + 1].n = sent - l + (i + 1)
        BY <1>1, <1>2, <3>1 DEF WireTyped
      <3>3. sent - l + (i + 1) = sent - (l - 1) + i
        BY <1>4, <3>1
      <3> QED BY <1>1, <1>3, <3>1, <3>2, <3>3
    <2>2. vm' \in {"running", "stopped"}
      BY <1>1 DEF Serve, WireTyped
    <2>3. at # "drain"
      BY <1>1 DEF WireTyped
    <2> QED BY <1>1, <1>7, <2>1, <2>2, <2>3 DEF WireTyped
  <1>12. StrangeInv'
    <2> SUFFICES ASSUME at \in Strange PROVE StrangeInv'
      BY <1>1 DEF StrangeInv
    <2>1. ASSUME NEW i \in DOMAIN stream', stream'[i].t = "body", Foreign(stream'[i].of)
          PROVE  stream'[i].is = "stop"
      <3>1. CASE i \in DOMAIN stream
        BY <1>7, <2>1, <3>1 DEF SyncInv, Sync, StrangeInv
      <3>2. CASE i \notin DOMAIN stream
        <4>1. stream'[i].of = n /\ (stops => stream'[i].is = "stop")
          BY <1>7, <2>1, <3>2
        <4>2. ~Data(inbox[1].cmd)
          BY <1>2, <2>1, <4>1 DEF SyncInv, Sync, StrangeInv, n
        <4> QED BY <1>6, <4>1, <4>2
      <3> QED BY <3>1, <3>2
    <2>2. \A i \in DOMAIN inbox' : Foreign(inbox'[i].n) => ~Data(inbox'[i].cmd)
      BY <1>9 DEF SyncInv, Sync, StrangeInv
    <2> QED BY <1>8, <2>1, <2>2 DEF StrangeInv
  <1>13. CleanInv'
    <2> SUFFICES ASSUME at \in Clean PROVE CleanInv'
      BY <1>1 DEF CleanInv
    <2>1. ~Foreign(n) /\ waiting
      BY <1>2 DEF SyncInv, Sync, CleanInv, Foreign, n
    <2>2. \A i \in DOMAIN stream' : stream'[i].t = "body" => ~Foreign(stream'[i].of)
      BY <1>7, <2>1 DEF SyncInv, Sync, CleanInv
    <2>3. \A i \in DOMAIN inbox' : ~Foreign(inbox'[i].n)
      BY <1>9 DEF SyncInv, Sync, CleanInv
    <2> QED BY <1>1, <1>8, <2>1, <2>2, <2>3 DEF CleanInv
  <1>14. OrderInv'
    <2> SUFFICES ASSUME Ordered PROVE Ordered'
      BY <1>1 DEF OrderInv, SyncInv, Sync
    <2>1. Len(inbox') < sent'
      BY <1>1, <1>2, <1>3, <1>4 DEF Ordered
    <2>2. ASSUME NEW i \in DOMAIN stream', NEW j \in DOMAIN stream', stream'[i].t = "#",
                 stream'[j].t = "body", stream'[j].is # "stop"
          PROVE  j < i
      <3>1. CASE i \in DOMAIN stream /\ j \in DOMAIN stream
        BY <1>7, <2>2, <3>1 DEF Ordered
      <3>2. CASE i \in DOMAIN stream /\ j \notin DOMAIN stream
        <4>1. Data(inbox[1].cmd) /\ stream[i].t = "#" /\ 1 \in DOMAIN inbox
          <5>1. stops => stream'[j].is = "stop"
            BY <1>7, <2>2, <3>2
          <5>2. stream'[i] = stream[i] /\ 1 \in DOMAIN inbox
            BY <1>2, <1>7, <3>2
          <5> QED BY <1>6, <2>2, <5>1, <5>2
        <4> QED BY <3>2, <4>1 DEF Ordered
      <3>3. CASE i \notin DOMAIN stream /\ j \in DOMAIN stream
        BY <1>7, <1>10, <3>3
      <3>4. CASE i \notin DOMAIN stream /\ j \notin DOMAIN stream
        <4>1. i + 1 = Len(stream') /\ Len(stream') = j + 2
          BY <1>7, <2>2, <3>4
        <4>2. i \in Nat /\ j \in Nat
          <5>1. stream' \in Seq(Tokens)
            BY <1>11 DEF WireTyped, stream
          <5> QED BY <5>1
        <4> QED BY <4>1, <4>2
      <3> QED BY <3>1, <3>2, <3>3, <3>4
    <2>3. \A i \in DOMAIN inbox' : ~Data(inbox'[i].cmd)
      BY <1>3, <1>9 DEF Ordered
    <2> QED BY <2>1, <2>2, <2>3 DEF Ordered
  <1>15. LastInv'
    <2> SUFFICES ASSUME waiting, NEW j \in DOMAIN stream', stream'[j].t = "body",
                        stream'[j].of = sent
                 PROVE  /\ inbox' = <<>> /\ Len(stream') = j + 2
                        /\ stream'[j + 1].t = "#" /\ stream'[j + 2].t = "checksum"
      BY <1>1 DEF LastInv
    <2>1. j \notin DOMAIN stream
      BY <1>1, <1>7 DEF SyncInv, Sync, LastInv
    <2>2. /\ stream'[j].of = n /\ Len(stream') = j + 2
          /\ stream'[j + 1].t = "#" /\ stream'[j + 2].t = "checksum"
      BY <1>7, <2>1
    <2>3. inbox' = <<>>
      BY <1>3, <1>4, <2>2 DEF n
    <2> QED BY <2>2, <2>3
  <1> QED BY <1>1, <1>11, <1>12, <1>13, <1>14, <1>15 DEF SyncInv, Sync, GoesByItsOwn

(* The stub greets before it has served anything, so only the first calls    *)
(* can find the greeting.                                                    *)
LEMMA GreetsSync ==
  ASSUME SyncInv, Greets PROVE Sync'
  <1>1. WireTyped /\ Typed /\ Len(inbox) = sent /\ sent \in Nat /\ greeted' = TRUE
        /\ wire' = wire \o Packet(0, "stop")
        /\ UNCHANGED <<at, waiting, buf, sent, late, used, open, vm, inbox>>
    BY DEF Greets, Say, host, SyncInv, Sync, Inv, Typed
  <1>2. Said(Packet(0, "stop"), 0, TRUE)
    BY PacketSaid
  <1>3. /\ wire' \in Seq(Tokens) /\ Whole(stream')
        /\ \A i \in DOMAIN stream' : stream'[i].of <= sent'
        /\ \A i \in DOMAIN stream : i \in DOMAIN stream' /\ stream'[i] = stream[i]
        /\ \A i \in DOMAIN stream' :
             \/ i \in DOMAIN stream
             \/ stream'[i].t = "body" => stream'[i].of = 0 /\ stream'[i].is = "stop"
    <2>1. 0 \in 0 .. sent
      BY <1>1
    <2>2. PICK toks, stops : toks = Packet(0, "stop") /\ stops = TRUE
      OBVIOUS
    <2>3. Said(toks, 0, stops) /\ wire' = wire \o toks
      BY <1>1, <1>2, <2>2
    <2>4. /\ wire' \in Seq(Tokens) /\ Whole(stream')
          /\ \A i \in DOMAIN stream' : stream'[i].of <= sent'
          /\ \A i \in DOMAIN stream : i \in DOMAIN stream' /\ stream'[i] = stream[i]
      BY <1>1, <2>1, <2>3, SayIs
    <2>5. \A i \in DOMAIN stream' :
            \/ i \in DOMAIN stream
            \/ stream'[i].t = "body" => stream'[i].of = 0 /\ (stops => stream'[i].is = "stop")
      <3>1. \A i \in DOMAIN stream' :
              \/ i \in DOMAIN stream
              \/ /\ i > Len(stream)
                 /\ stream'[i].t = "body" =>
                      /\ stream'[i].of = 0 /\ (stops => stream'[i].is = "stop")
                      /\ Len(stream') = i + 2
                      /\ stream'[i + 1].t = "#" /\ stream'[i + 2].t = "checksum"
                 /\ stream'[i].t = "#" => i + 1 = Len(stream')
        BY <1>1, <2>1, <2>3, SayIs
      <3> QED BY <3>1
    <2> QED BY <2>2, <2>4, <2>5
  <1>4. WireTyped'
    BY <1>1, <1>3 DEF WireTyped
  <1>5. at \notin Clean \cup Resuming
    BY <1>1 DEF SyncInv, Sync, OrderInv, Ordered
  <1>6. StrangeInv'
    <2> SUFFICES ASSUME at \in Strange PROVE StrangeInv'
      BY <1>1 DEF StrangeInv
    <2>1. \A k : Foreign(k)' <=> Foreign(k)
      BY <1>1 DEF Foreign
    <2>2. \A i \in DOMAIN stream' :
            stream'[i].t = "body" /\ Foreign(stream'[i].of) => stream'[i].is = "stop"
      BY <1>3 DEF SyncInv, Sync, StrangeInv
    <2> QED BY <1>1, <2>1, <2>2 DEF SyncInv, Sync, StrangeInv
  <1>7. LastInv'
    <2> SUFFICES ASSUME waiting, NEW j \in DOMAIN stream', stream'[j].t = "body",
                        stream'[j].of = sent
                 PROVE  FALSE
      BY <1>1 DEF LastInv
    <2>1. sent > 0 /\ inbox # <<>>
      BY <1>1 DEF WireTyped
    <2>2. CASE j \in DOMAIN stream
      BY <1>3, <2>1, <2>2 DEF SyncInv, Sync, LastInv
    <2>3. CASE j \notin DOMAIN stream
      BY <1>1, <1>3, <2>1, <2>3
    <2> QED BY <2>2, <2>3
  <1> QED BY <1>1, <1>4, <1>5, <1>6, <1>7 DEF CleanInv, OrderInv, SyncInv, Sync, GoesByItsOwn

(* Every step, and every stutter, keeps the calls and the replies in step.   *)
LEMMA NextSync == SyncInv /\ [Next]_vars => SyncInv'
  <1> SUFFICES ASSUME SyncInv, [Next]_vars PROVE Sync'
    BY NextHalted DEF SyncInv
  <1>1. CASE HostStep
    BY <1>1, DrainSync, SendSync, RecvSync, RecvOneSync, NothingCameSync DEF HostStep
  <1>2. CASE Serve
    BY <1>2, ServeSync
  <1>3. CASE Greets
    BY <1>3, GreetsSync
  <1>4. CASE Dies \/ Over \/ UNCHANGED vars
    <2>1. /\ UNCHANGED <<at, waiting, buf, sent, late, used, greeted, vm, inbox, wire>>
          /\ open' \in BOOLEAN
      BY <1>4 DEF Dies, Over, vars, host, stub, SyncInv, Sync, WireTyped
    <2>2. stream' = stream
      BY <2>1 DEF stream
    <2> QED BY <2>1, <2>2, KeepsSync DEF SyncInv, Sync, WireTyped
  <1> QED BY <1>1, <1>2, <1>3, <1>4 DEF Next

(* Every variable keeps to its range.                                        *)
THEOREM TypeCorrect == Spec => []TypeOK
  <1>1. SyncInv => TypeOK
    BY DEF SyncInv, Sync, Inv, Typed, WireTyped, TypeOK, Calls
  <1> QED BY <1>1, InitSync, NextSync, PTL DEF Spec

(* The refill never goes by a reply to another command, however the stream   *)
(* is cut, whatever the stub says unasked, and however late the answer to a  *)
(* sample given up on comes.                                                 *)
THEOREM OwnReplies == Spec => []GoesByItsOwn
  <1>1. SyncInv => GoesByItsOwn
    BY DEF SyncInv, Sync
  <1> QED BY <1>1, InitSync, NextSync, PTL DEF Spec
=============================================================================
