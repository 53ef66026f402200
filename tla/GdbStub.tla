------------------------------ MODULE GdbStub ------------------------------
(***************************************************************************)
(* class Gdb of ring_compile.py over one socket to QEMU's gdbstub, driven   *)
(* by the calls compile_ring makes, in its order.  RingTransport takes a    *)
(* command as one step that works or fails; here it is a packet sent and a  *)
(* reply found in what the socket hands over, in pieces cut anywhere, among *)
(* acks, checksums, stop replies, and the late answer to a call that was    *)
(* given up.                                                                *)
(*                                                                          *)
(* The stub's stream is a sequence of tokens.  A packet is "$", a body, "#" *)
(* and a checksum; the ack "+" stands alone.  A body says which command it  *)
(* answers, which the client cannot see, and of what kind it is, which it   *)
(* can.  The host's own acks go to a stub that does not wait for them and   *)
(* are left out.                                                            *)
(***************************************************************************)
EXTENDS Naturals, Sequences

CONSTANT MaxSent    \* bound: no round is begun, no piece written after these

ASSUME MaxSentAssumption == MaxSent \in Nat

VARIABLES
  at,        \* the call compile_ring is at
  waiting,   \* its packet is sent, and it is in recv
  buf,       \* what this call has received
  sent,      \* packets sent; the last is this call's
  inbox,     \* sent and not yet served, [n, cmd]
  wire,      \* the stub's stream, from the first token not received
  open,      \* QEMU is alive at the other end
  greeted,   \* the spontaneous stop packet has come
  vm,        \* "running" or "stopped"
  late,      \* read_pc gave up on a reply that may still come
  used       \* the last reply a call went by: whose call, which packet's reply

host == <<at, waiting, buf, sent, late, used>>
stub == <<open, greeted, vm>>
vars == <<host, stub, inbox, wire>>

Token(t) == [t |-> t, of |-> 0, is |-> "mark"]
Packet(n, kind) ==
  <<Token("$"), [t |-> "body", of |-> n, is |-> kind], Token("#"), Token("checksum")>>

Ended == {"done", "failed"}
Reads  == {"head", "back", "poll", "see wpos", "see rpos"}
Writes == {"set wpos", "set rpos", "fill"}

(* What each call sends.                                                    *)
Command(call) ==
  CASE call \in Reads    -> "m"
    [] call \in Writes   -> "M"
    [] call = "attach"   -> "?"
    [] call = "sample"   -> "p"
    [] call = "cont"     -> "c"
    [] call = "stop"     -> "interrupt"
    [] call = "detach"   -> "D"

(* After continuing and sleeping.                                           *)
MutPollRunning == {"poll"}
AfterResume == {"stop"}

(* What compile_ring may call next.  A blob that fits the ring is not       *)
(* refilled; the guest and the clock decide the rest.                       *)
After(call) ==
  CASE call = "drain"    -> {"attach"}
    [] call = "attach"   -> {"head"}
    [] call = "head"     -> {"set wpos"}
    [] call = "set wpos" -> {"set rpos"}
    [] call = "set rpos" -> {"back"}
    [] call = "back"     -> {"detach", "cont"}
    [] call = "cont"     -> AfterResume
    [] call = "stop"     -> {"poll"}
    [] call = "poll"     -> {"detach", "fill", "sample", "cont"}
    [] call = "fill"     -> {"fill", "sample", "cont"}
    [] call = "sample"   -> {"cont", "see wpos"}
    [] call = "see wpos" -> {"see rpos"}
    [] call = "see rpos" -> {"failed"}
    [] call = "detach"   -> {"done"}

Init ==
  /\ at = "drain" /\ waiting = FALSE /\ buf = <<>> /\ sent = 0
  /\ inbox = <<>> /\ wire = <<>>
  /\ open = TRUE /\ greeted = FALSE /\ vm = "stopped"
  /\ late = FALSE /\ used = [call |-> "none", own |-> 0, of |-> 0]
-----------------------------------------------------------------------------
(* The calls.                                                               *)
MutBufKept ==
  /\ waiting' = FALSE /\ UNCHANGED buf
  /\ at' \in {c \in After(at) : c \in {"cont", "fill"} => sent < MaxSent}
Return ==
  /\ waiting' = FALSE
  /\ buf' = <<>>
  /\ at' \in {c \in After(at) : c \in {"cont", "fill"} => sent < MaxSent}

(* An exception in a call leaves compile_ring, but for read_pc and detach,  *)
(* which swallow it; read_pc's reply is then still to come.                 *)
Raise ==
  IF at \in {"sample", "detach"}
    THEN Return /\ late' = (late \/ at = "sample")
    ELSE waiting' = FALSE /\ buf' = <<>> /\ at' = "failed" /\ UNCHANGED late

(* __init__ drains what is queued until 0.8 s of silence.                   *)
Drain ==
  /\ at = "drain"
  /\ IF wire # <<>> THEN wire' = <<>> /\ UNCHANGED <<at, waiting, buf>>
                    ELSE Return /\ UNCHANGED wire
  /\ UNCHANGED <<sent, late, used, stub, inbox>>

Send ==
  /\ at \notin Ended \cup {"drain"} /\ ~waiting
  /\ IF open
       THEN /\ waiting' = TRUE /\ sent' = sent + 1
            /\ inbox' = Append(inbox, [n |-> sent + 1, cmd |-> Command(at)])
            /\ UNCHANGED <<at, buf, late>>
       ELSE Raise /\ UNCHANGED <<sent, inbox>>
  /\ UNCHANGED <<used, stub, wire>>

(* bytes.index(t, from), or 0.                                              *)
Index(b, t, from) ==
  LET places == {i \in from .. Len(b) : b[i].t = t}
  IN IF places = {} THEN 0 ELSE CHOOSE i \in places : \A j \in places : i <= j

(* `b"#" in buf[1:]`                                                        *)
HashSeen(b) == Index(b, "#", 2) # 0

(* Which replies each call goes by: a length and no E, an OK, or anything.  *)
MutAnything(call, body) == TRUE
Accepts(call, body) ==
  CASE call \in Reads -> body.is = "hex" [] call \in Writes -> body.is = "OK" [] OTHER -> TRUE

(* The reply is between the first $ and the first # behind it.              *)
Reply(b) ==
  LET start == Index(b, "$", 1)
      end   == IF start = 0 THEN 0 ELSE Index(b, "#", start)
  IN IF end = 0 THEN {} ELSE {b[start + 1]}

(* recv hands over some of what there is; whatever follows the reply in the *)
(* same piece is thrown away with the buffer.                               *)
Recv ==
  /\ waiting /\ at # "cont" /\ wire # <<>>
  /\ \E k \in 1 .. Len(wire) :
       LET b == buf \o SubSeq(wire, 1, k)
       IN /\ wire' = SubSeq(wire, k + 1, Len(wire))
          /\ IF ~HashSeen(b) THEN buf' = b /\ UNCHANGED <<at, waiting, late, used>>
             ELSE IF at = "stop" THEN Return /\ UNCHANGED <<late, used>>
             ELSE IF \E body \in Reply(b) : Accepts(at, body)
               THEN /\ Return /\ UNCHANGED late
                    /\ \E body \in Reply(b) :
                         used' = [call |-> at, own |-> sent, of |-> body.of]
               ELSE Raise /\ UNCHANGED used
  /\ UNCHANGED <<sent, stub, inbox>>

(* cont_nowait takes one byte and assumes it is the ack.                    *)
RecvOne ==
  /\ waiting /\ at = "cont" /\ wire # <<>>
  /\ wire' = Tail(wire)
  /\ Return
  /\ UNCHANGED <<sent, late, used, stub, inbox>>

(* Nothing within the socket's five seconds, or the end of the stream.      *)
MutPatient == ~open
TimedOut == TRUE
NothingCame ==
  /\ waiting /\ wire = <<>> /\ TimedOut
  /\ IF at = "cont" /\ ~open THEN Return /\ UNCHANGED late ELSE Raise
  /\ UNCHANGED <<sent, used, stub, inbox, wire>>
-----------------------------------------------------------------------------
(* The stub serves what it was sent, in order; it halts the VM on connect   *)
(* and may say so; it may be slow, refuse, or die.                          *)
Say(tokens) == wire' = wire \o tokens

Answer(n, kind) == Say(<<Token("+")>> \o Packet(n, kind))

Serve ==
  /\ open /\ inbox # <<>>
  /\ inbox' = Tail(inbox)
  /\ LET n == Head(inbox).n
         cmd == Head(inbox).cmd
     IN \/ cmd = "?" /\ Answer(n, "stop") /\ UNCHANGED vm
        \/ cmd \in {"m", "p"} /\ \E kind \in {"hex", "E"} : Answer(n, kind) /\ UNCHANGED vm
        \/ cmd = "M" /\ \E kind \in {"OK", "E"} : Answer(n, kind) /\ UNCHANGED vm
        \/ cmd = "c" /\ Say(<<Token("+")>>) /\ vm' = "running"
        \/ cmd = "D" /\ Answer(n, "OK") /\ vm' = "running"
        \/ cmd = "interrupt" /\ vm = "running" /\ Say(Packet(n, "stop")) /\ vm' = "stopped"
        \/ cmd = "interrupt" /\ vm = "stopped" /\ UNCHANGED <<wire, vm>>
  /\ UNCHANGED <<host, open, greeted>>

Greets ==
  /\ open /\ ~greeted /\ Len(inbox) = sent
  /\ greeted' = TRUE /\ Say(Packet(0, "stop"))
  /\ UNCHANGED <<host, open, vm, inbox>>

Dies ==
  /\ open /\ open' = FALSE
  /\ UNCHANGED <<host, greeted, vm, inbox, wire>>

HostStep == Drain \/ Send \/ Recv \/ RecvOne \/ NothingCame

Over == at \in Ended /\ UNCHANGED vars

Next == HostStep \/ Serve \/ Greets \/ Dies \/ Over

Spec == Init /\ [][Next]_vars

(* The driver runs on: a recv returns or times out.  Nothing of the stub.   *)
FairSpec == Spec /\ WF_vars(HostStep)
-----------------------------------------------------------------------------
(* Every variable keeps to its range.                                       *)
TypeOK ==
  /\ at \in {"drain", "attach", "cont", "stop", "sample", "detach"} \cup Reads
            \cup Writes \cup Ended
  /\ waiting \in BOOLEAN /\ open \in BOOLEAN /\ greeted \in BOOLEAN /\ late \in BOOLEAN
  /\ sent \in Nat /\ used.own \in 0 .. sent /\ used.of \in 0 .. sent
  /\ \A i \in DOMAIN inbox : inbox[i].n = sent - Len(inbox) + i
  /\ vm \in {"running", "stopped"}
  /\ ~waiting => buf = <<>>

(* The refill goes by no reply but the one to the command it just sent:     *)
(* whatever came late, came twice in a piece or was thrown away, a foreign  *)
(* reply is refused and the compile fails.                                  *)
GoesByItsOwn ==
  used.call \in (Reads \cup Writes \cup {"sample"}) \ {"see wpos", "see rpos"} => used.own = used.of

(* So is the verdict on a stall, read after a sample.                       *)
SeesTheCells == used.call \in {"see wpos", "see rpos"} => used.own = used.of

(* Memory is touched only with the VM stopped, also when interrupt() took a *)
(* leftover packet for the stop.                                            *)
Touched == inbox # <<>> /\ inbox' = Tail(inbox) /\ Head(inbox).cmd \in {"m", "M"}
AccessHalted == [][Touched => vm = "stopped"]_vars

(* Every call returns or raises, whatever the stub does or leaves undone.   *)
CallsEnd == waiting ~> ~waiting
=============================================================================
