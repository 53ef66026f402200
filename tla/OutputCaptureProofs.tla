------------------------ MODULE OutputCaptureProofs ------------------------
(* Proofs about the capture of a guest's output, for every script it may     *)
(* print, cut into chunks anywhere.                                          *)
EXTENDS OutputCapture, SequenceTheorems, WellFoundedInduction, TLAPS

(* The sidecar is made fresh before the artifact is: from then on nothing of *)
(* an earlier run is left in it.                                             *)
EvidenceInv ==
  ~sentinel =>
    /\ artifact.age = "fresh" => sidecar.age # "stale"
    /\ phase \in {"body", "map"} => sidecar.age # "stale"

(* The three ages are told apart.                                            *)
LEMMA Ages == \A d : Stale(d).age = "stale" /\ Absent(d).age = "absent" /\ Written(d).age = "fresh"
  BY DEF Stale, Absent, Written

(* A run starts beside whatever an earlier one left, with nothing of its own.*)
LEMMA InitEvidence == Init => EvidenceInv
  BY Ages DEF Init, EvidenceInv

(* Every step keeps it.                                                      *)
LEMMA EvidenceStep == EvidenceInv /\ [Next]_vars => EvidenceInv'
  <1> SUFFICES ASSUME EvidenceInv, [Next]_vars PROVE EvidenceInv'
    OBVIOUS
  <1> USE DEF EvidenceInv
  <1>1. CASE Emit \/ QemuDies \/ HostKilled
    BY <1>1 DEF Emit, QemuDies, HostKilled, guestVars, fileVars
  <1>2. CASE Recv
    BY <1>2 DEF Recv, Return, guestVars, fileVars
  <1>3. CASE Quiet \/ Eof \/ Deadline
    BY <1>3 DEF Quiet, Eof, Deadline, Parse, guestVars, fileVars
  <1>4. CASE WriteDiags
    <2>1. sidecar'.age # "stale" /\ sentinel' = sentinel
      BY <1>4, Ages DEF WriteDiags, FreshSidecar, guestVars
    <2> QED BY <2>1
  <1>5. CASE WriteBinary
    BY <1>5 DEF WriteBinary, Return, guestVars
  <1>6. CASE WriteMap
    BY <1>6 DEF WriteMap, Return, guestVars
  <1>7. CASE WriteStream
    BY <1>7 DEF WriteStream, guestVars
  <1>8. CASE Ended \/ UNCHANGED vars
    BY <1>8 DEF Ended, vars
  <1> QED BY <1>1, <1>2, <1>3, <1>4, <1>5, <1>6, <1>7, <1>8 DEF Next, HostStep

(* Whatever the guest prints and wherever the driver is killed, an artifact  *)
(* of this run does not stand beside an earlier run's diagnostics.           *)
THEOREM EvidenceIsFresh == Spec => []EvidenceFresh
  <1>1. EvidenceInv => EvidenceFresh
    BY DEF EvidenceInv, EvidenceFresh
  <1> QED BY <1>1, InitEvidence, EvidenceStep, PTL DEF Spec
-----------------------------------------------------------------------------
(* The rest of the capture.  Ranges, and what the two framings are.          *)
Typed ==
  /\ sentinel \in BOOLEAN /\ script \in Seq(Tokens)
  /\ script \in IF sentinel THEN Streamed ELSE Framed
  /\ sent \in 0 .. Len(script) /\ got \in 0 .. sent
  /\ alive \in BOOLEAN /\ late \in BOOLEAN
  /\ needed = None \/ needed \in Nat \ {0}
  /\ phase \in {"reading", "diags", "body", "map", "done", "killed"}
  /\ result \in {"none", "true", "false", "raised"}
  /\ artifact.age \in {"stale", "fresh"}
  /\ sidecar.age \in {"stale", "absent", "fresh"}
  /\ map.age \in {"stale", "fresh"}

(* Where the capture may stop is a place in all that the guest will print,   *)
(* though it was found in a part of it: past the sentinel, past the payload, *)
(* or anywhere when the guest gave up and announces nothing, or streams a    *)
(* text that never ends or reads like the framing of the other mode.         *)
NeededInv ==
  needed # None =>
    IF sentinel
    THEN First(script, "sentinel") # 0 /\ ~ReadsAsFramed => needed = First(script, "sentinel")
    ELSE \/ /\ HeaderEnd(script) # 0 /\ Announced(script) \in Nat
            /\ needed = HeaderEnd(script) + Announced(script)
         \/ First(script, "size") = 0

(* The parsing has begun with all that is needed, or the guest or the clock  *)
(* is to blame.                                                              *)
WaitInv ==
  /\ phase \in {"reading", "diags", "body", "map"} => result = "none"
  /\ phase \in {"diags", "map"} => ~sentinel
  /\ phase \in {"diags", "body", "map"} => late \/ ~alive \/ (needed # None /\ got >= needed)

(* Past the header, the sidecar says what the header says; past the payload, *)
(* the artifact is what was announced.                                       *)
BodyInv ==
  phase \in {"body", "map"} /\ ~sentinel =>
    /\ HeaderEnd(out) # 0 /\ Announced(out) # Unparsable
    /\ sidecar = FreshSidecar(Diagnostics(out))
    /\ phase = "map" => got >= PayloadEnd /\ artifact = Written(Binary)

Inv ==
  Typed /\ NeededInv /\ WaitInv /\ BodyInv
  /\ TrueMeansWhole /\ FailureIsTheGuests /\ NoDiagnosticLost
-----------------------------------------------------------------------------
(* Numbers have a least one among them.                                      *)
LEMMA LeastIs ==
  ASSUME NEW T \in SUBSET Nat, T # {} PROVE \E x \in T : \A y \in T : x <= y
  <1>1. \E x \in T : \A y \in T : <<y, x>> \notin OpToRel(<, Nat)
    BY NatLessThanWellFounded, WFMin
  <1>2. PICK x \in T : \A y \in T : <<y, x>> \notin OpToRel(<, Nat)
    BY <1>1
  <1>3. \A y \in T : ~(y < x)
    BY <1>2 DEF OpToRel
  <1>4. \A y \in T : y \in Nat
    OBVIOUS
  <1>5. \A y \in T : x <= y
    BY <1>3, <1>4
  <1> QED BY <1>5

(* The first token of a kind.                                                *)
LEMMA FirstIs ==
  ASSUME NEW s \in Seq(Tokens), NEW k
  PROVE  /\ First(s, k) \in 0 .. Len(s)
         /\ First(s, k) = 0 => \A i \in 1 .. Len(s) : s[i].kind # k
         /\ First(s, k) # 0 => s[First(s, k)].kind = k
         /\ \A i \in 1 .. Len(s) : i < First(s, k) => s[i].kind # k
  <1> DEFINE I == {i \in 1 .. Len(s) : s[i].kind = k}
  <1>1. First(s, k) = IF I # {} THEN Min(I) ELSE 0
    BY DEF First, SelectInSeq
  <1>2. CASE I = {}
    <2>1. First(s, k) = 0 /\ \A i \in 1 .. Len(s) : s[i].kind # k
      BY <1>1, <1>2
    <2> QED BY <2>1
  <1>3. CASE I # {}
    <2>1. \E x \in I : \A y \in I : x <= y
      <3>1. I \in SUBSET Nat
        OBVIOUS
      <3> HIDE DEF I
      <3> QED BY <1>3, <3>1, LeastIs
    <2>2. First(s, k) \in I /\ \A y \in I : First(s, k) <= y
      <3> HIDE DEF I
      <3>1. Min(I) \in I /\ \A y \in I : Min(I) <= y
        BY <2>1 DEF Min
      <3> QED BY <1>1, <1>3, <3>1
    <2>3. First(s, k) \in 1 .. Len(s) /\ s[First(s, k)].kind = k
      BY <2>2
    <2>4. \A i \in 1 .. Len(s) : i < First(s, k) => s[i].kind # k
      BY <2>2, <2>3
    <2> QED BY <2>3, <2>4
  <1> QED BY <1>2, <1>3

(* It is where it is in the whole, if the part reaches that far.             *)
LEMMA FirstOfPart ==
  ASSUME NEW s \in Seq(Tokens), NEW k, NEW m \in 0 .. Len(s)
  PROVE  First(SubSeq(s, 1, m), k) = IF First(s, k) <= m THEN First(s, k) ELSE 0
  <1> DEFINE p == SubSeq(s, 1, m)
  <1>1. p \in Seq(Tokens) /\ Len(p) = m /\ \A i \in 1 .. m : p[i] = s[i]
    <2>1. \A i \in 1 .. m : s[i] \in Tokens
      OBVIOUS
    <2> QED BY <2>1, SubSeqProperties
  <1> HIDE DEF p
  <1>2. PICK f, g : f = First(s, k) /\ g = First(p, k)
    OBVIOUS
  <1>3. /\ f \in 0 .. Len(s)
        /\ f = 0 => \A i \in 1 .. Len(s) : s[i].kind # k
        /\ f # 0 => s[f].kind = k
        /\ \A i \in 1 .. Len(s) : i < f => s[i].kind # k
    BY <1>2, FirstIs
  <1>4. /\ g \in 0 .. m
        /\ g = 0 => \A i \in 1 .. m : s[i].kind # k
        /\ g # 0 => s[g].kind = k
        /\ \A i \in 1 .. m : i < g => s[i].kind # k
    BY <1>1, <1>2, FirstIs
  <1>5. Len(s) \in Nat
    OBVIOUS
  <1>6. g = IF f <= m THEN f ELSE 0
    BY <1>3, <1>4, <1>5
  <1> QED BY <1>2, <1>6 DEF p

(* The newline that ends the header: the first behind SIZE.                  *)
LEMMA HeaderIs ==
  ASSUME NEW s \in Seq(Tokens)
  PROVE  /\ HeaderEnd(s) \in 0 .. Len(s)
         /\ First(s, "size") = 0 => HeaderEnd(s) = 0
         /\ HeaderEnd(s) # 0 => /\ First(s, "size") # 0 /\ First(s, "size") < HeaderEnd(s)
                                /\ s[HeaderEnd(s)].kind = "nl"
         /\ HeaderEnd(s) = 0 /\ First(s, "size") # 0 =>
              \A i \in First(s, "size") .. Len(s) : s[i].kind # "nl"
         /\ HeaderEnd(s) # 0 =>
              \A i \in First(s, "size") .. HeaderEnd(s) - 1 : s[i].kind # "nl"
  <1>1. PICK f, n \in Nat : f = First(s, "size") /\ n = Len(s)
    BY FirstIs
  <1>2. f \in 0 .. n /\ (f # 0 => s[f].kind = "size")
    BY <1>1, FirstIs
  <1>3. CASE f = 0
    <2>1. HeaderEnd(s) = 0
      BY <1>1, <1>3 DEF HeaderEnd
    <2> QED BY <1>1, <1>3, <2>1
  <1>4. CASE f # 0
    <2>1. f \in 1 .. n
      BY <1>2, <1>4
    <2> DEFINE r == SubSeq(s, f, n)
    <2>2. r \in Seq(Tokens) /\ Len(r) = n - f + 1 /\ \A i \in 1 .. n - f + 1 : r[i] = s[f + i - 1]
      <3>1. \A i \in f .. n : s[i] \in Tokens
        BY <1>1, <2>1
      <3> QED BY <2>1, <3>1, SubSeqProperties
    <2>3. PICK j : j = First(r, "nl")
      OBVIOUS
    <2>4. HeaderEnd(s) = IF j = 0 THEN 0 ELSE f + j - 1
      BY <1>1, <1>4, <2>3 DEF HeaderEnd
    <2> HIDE DEF r
    <2>5. /\ j \in 0 .. n - f + 1
          /\ j = 0 => \A i \in 1 .. n - f + 1 : r[i].kind # "nl"
          /\ j # 0 => r[j].kind = "nl"
          /\ \A i \in 1 .. n - f + 1 : i < j => r[i].kind # "nl"
      BY <2>2, <2>3, FirstIs
    <2>6. \A i \in f .. n : i - f + 1 \in 1 .. n - f + 1 /\ s[i] = r[i - f + 1]
      <3> SUFFICES ASSUME NEW i \in f .. n
                   PROVE  i - f + 1 \in 1 .. n - f + 1 /\ s[i] = r[i - f + 1]
        OBVIOUS
      <3>1. i - f + 1 \in 1 .. n - f + 1 /\ f + (i - f + 1) - 1 = i
        BY <2>1
      <3> QED BY <2>2, <3>1
    <2>7. CASE j = 0
      <3>1. \A i \in f .. n : s[i].kind # "nl"
        BY <2>5, <2>6, <2>7
      <3> QED BY <1>1, <1>4, <2>4, <2>7, <3>1
    <2>8. CASE j # 0
      <3>1. j # 1
        BY <1>2, <1>4, <2>1, <2>2, <2>5
      <3>2. f + j - 1 \in f + 1 .. n
        BY <2>1, <2>5, <2>8, <3>1
      <3>3. s[f + j - 1].kind = "nl"
        BY <2>2, <2>5, <2>8
      <3>4. \A i \in f .. f + j - 2 : s[i].kind # "nl"
        <4> SUFFICES ASSUME NEW i \in f .. f + j - 2 PROVE s[i].kind # "nl"
          OBVIOUS
        <4>1. i \in f .. n /\ i - f + 1 < j
          BY <2>1, <3>2, <2>5
        <4> QED BY <2>5, <2>6, <4>1
      <3>5. HeaderEnd(s) = f + j - 1 /\ HeaderEnd(s) \in f + 1 .. n /\ HeaderEnd(s) - 1 = f + j - 2
        BY <2>1, <2>4, <2>5, <2>8, <3>2
      <3> QED BY <1>1, <1>4, <2>1, <3>3, <3>4, <3>5
    <2> QED BY <2>7, <2>8
  <1> QED BY <1>3, <1>4

(* A part that reaches past the header has the header of the whole.          *)
LEMMA HeaderOfPart ==
  ASSUME NEW s \in Seq(Tokens), NEW m \in 0 .. Len(s)
  PROVE  LET p == SubSeq(s, 1, m)
         IN /\ HeaderEnd(p) = IF HeaderEnd(s) <= m THEN HeaderEnd(s) ELSE 0
            /\ First(p, "size") # 0 => Announced(p) = Announced(s)
  <1> DEFINE p == SubSeq(s, 1, m)
  <1>1. p \in Seq(Tokens) /\ Len(p) = m /\ \A i \in 1 .. m : p[i] = s[i]
    <2>1. \A i \in 1 .. m : s[i] \in Tokens
      OBVIOUS
    <2> QED BY <2>1, SubSeqProperties
  <1>2. First(p, "size") = IF First(s, "size") <= m THEN First(s, "size") ELSE 0
    BY FirstOfPart
  <1> HIDE DEF p
  <1>3. PICK f, g, h, e : f = First(s, "size") /\ g = First(p, "size")
                          /\ h = HeaderEnd(s) /\ e = HeaderEnd(p)
    OBVIOUS
  <1>4. Len(s) \in Nat /\ f \in 0 .. Len(s) /\ g = IF f <= m THEN f ELSE 0
    BY <1>2, <1>3, FirstIs
  <1>5. /\ h \in 0 .. Len(s) /\ (f = 0 => h = 0)
        /\ h # 0 => f # 0 /\ f < h /\ s[h].kind = "nl"
        /\ h = 0 /\ f # 0 => \A i \in f .. Len(s) : s[i].kind # "nl"
        /\ h # 0 => \A i \in f .. h - 1 : s[i].kind # "nl"
    BY <1>3, HeaderIs
  <1>6. /\ e \in 0 .. m /\ (g = 0 => e = 0)
        /\ e # 0 => g # 0 /\ g < e /\ p[e].kind = "nl"
        /\ e = 0 /\ g # 0 => \A i \in g .. m : p[i].kind # "nl"
        /\ e # 0 => \A i \in g .. e - 1 : p[i].kind # "nl"
    BY <1>1, <1>3, HeaderIs
  <1>7. CASE g = 0
    <2>1. e = 0 /\ (h # 0 => h > m)
      BY <1>4, <1>5, <1>6, <1>7
    <2>2. e = IF h <= m THEN h ELSE 0
      BY <1>5, <2>1
    <2> QED BY <1>3, <1>7, <2>2 DEF p
  <1>8. CASE g # 0
    <2>1. g = f /\ f \in 1 .. m
      BY <1>4, <1>8
    <2>2. \A i \in f .. m : p[i] = s[i]
      BY <1>1, <2>1
    <2>3. e = IF h <= m THEN h ELSE 0
      <3>1. CASE e = 0
        <4>1. \A i \in f .. m : s[i].kind # "nl"
          BY <1>6, <1>8, <2>1, <2>2, <3>1
        <4>2. h # 0 => ~(h <= m)
          BY <1>5, <2>1, <4>1
        <4> QED BY <3>1, <4>2
      <3>2. CASE e # 0
        <4>1. e \in f + 1 .. m /\ s[e].kind = "nl" /\ \A i \in f .. e - 1 : s[i].kind # "nl"
          BY <1>6, <2>1, <2>2, <3>2
        <4>2. h # 0
          BY <1>4, <1>5, <2>1, <4>1
        <4>3. ~(h < e)
          BY <1>5, <2>1, <4>1, <4>2
        <4>4. ~(e < h)
          BY <1>5, <2>1, <4>1, <4>2
        <4> QED BY <1>4, <1>5, <4>1, <4>3, <4>4
      <3> QED BY <3>1, <3>2
    <2>4. Announced(p) = Announced(s)
      BY <1>3, <2>1, <2>2 DEF Announced
    <2> QED BY <1>3, <2>3, <2>4 DEF p
  <1> QED BY <1>7, <1>8

(* What has been received is a part of what the guest prints.                *)
LEMMA OutIs ==
  ASSUME Typed
  PROVE  /\ out \in Seq(Tokens) /\ Len(out) = got /\ got \in 0 .. Len(script) /\ got \in Nat
         /\ \A i \in 1 .. got : out[i] = script[i]
         /\ \A k : First(out, k) = IF First(script, k) <= got THEN First(script, k) ELSE 0
         /\ HeaderEnd(out) = IF HeaderEnd(script) <= got THEN HeaderEnd(script) ELSE 0
         /\ First(out, "size") # 0 => Announced(out) = Announced(script)
  <1>1. script \in Seq(Tokens) /\ got \in 0 .. Len(script) /\ got \in Nat
    BY DEF Typed
  <1>2. out \in Seq(Tokens) /\ Len(out) = got /\ \A i \in 1 .. got : out[i] = script[i]
    <2>1. \A i \in 1 .. got : script[i] \in Tokens
      BY <1>1
    <2> QED BY <1>1, <2>1, SubSeqProperties DEF out
  <1>3. \A k : First(out, k) = IF First(script, k) <= got THEN First(script, k) ELSE 0
    BY <1>1, FirstOfPart DEF out
  <1>4. /\ HeaderEnd(out) = IF HeaderEnd(script) <= got THEN HeaderEnd(script) ELSE 0
        /\ First(out, "size") # 0 => Announced(out) = Announced(script)
    BY <1>1, HeaderOfPart DEF out
  <1> QED BY <1>1, <1>2, <1>3, <1>4

(* The least and the greatest of an interval.                                *)
LEMMA IntervalEnds ==
  ASSUME NEW a \in Int, NEW b \in Int, a <= b
  PROVE  Min(a .. b) = a /\ Max(a .. b) = b
  <1>1. Min(a .. b) = a
    <2>1. a \in a .. b /\ \A y \in a .. b : a <= y
      OBVIOUS
    <2>2. \A x \in a .. b : (\A y \in a .. b : x <= y) => x = a
      BY <2>1
    <2> QED BY <2>1, <2>2 DEF Min
  <1>2. Max(a .. b) = b
    <2>1. b \in a .. b /\ \A y \in a .. b : b >= y
      OBVIOUS
    <2>2. \A x \in a .. b : (\A y \in a .. b : x >= y) => x = b
      BY <2>1
    <2> QED BY <2>1, <2>2 DEF Max
  <1> QED BY <1>1, <1>2

(* The payload is a sequence, whatever the header said of it.                *)
LEMMA PayloadIs ==
  ASSUME Typed PROVE ~sentinel => Len(Payload) \in Nat
  <1> SUFFICES ASSUME ~sentinel PROVE Len(Payload) \in Nat
    OBVIOUS
  <1> DEFINE bytes == {p \in DOMAIN script : script[p].kind = "byte"}
  <1>1. Payload = IF bytes = {} THEN <<>> ELSE SubSeq(script, Min(bytes), Max(bytes))
    BY DEF Payload
  <1>2. CASE bytes = {}
    BY <1>1, <1>2
  <1>3. CASE bytes # {}
    <2>1. PICK n \in Nat : n = Len(script) /\ DOMAIN script = 1 .. n /\ script \in Seq(Tokens)
      BY DEF Typed
    <2>2. bytes \subseteq 1 .. n
      BY <2>1
    <2> HIDE DEF bytes
    <2>3. Min(bytes) \in bytes
      <3>1. \E x \in bytes : \A y \in bytes : x <= y
        <4>1. bytes \in SUBSET Nat
          BY <2>2
        <4> QED BY <1>3, <4>1, LeastIs
      <3> QED BY <3>1 DEF Min
    <2>4. Max(bytes) \in bytes
      <3> DEFINE back == {n - x : x \in bytes}
      <3>1. back \in SUBSET Nat /\ back # {}
        <4>1. \A x \in bytes : n - x \in Nat
          BY <2>1, <2>2
        <4>2. back # {}
          BY <1>3
        <4> QED BY <4>1, <4>2
      <3>2. \E x \in back : \A y \in back : x <= y
        <4> HIDE DEF back
        <4> QED BY <3>1, LeastIs
      <3>3. PICK x \in bytes : \A y \in bytes : n - x <= n - y
        BY <3>2
      <3>4. \A y \in bytes : x >= y
        <4> SUFFICES ASSUME NEW y \in bytes PROVE x >= y
          OBVIOUS
        <4>1. x \in 1 .. n /\ y \in 1 .. n /\ n - x <= n - y
          BY <2>2, <3>3
        <4> QED BY <2>1, <4>1
      <3> QED BY <3>4 DEF Max
    <2>5. PICK a, b \in 1 .. n : a = Min(bytes) /\ b = Max(bytes)
      BY <2>2, <2>3, <2>4
    <2>6. \A i \in a .. b : script[i] \in Tokens
      BY <2>1, <2>5
    <2>7. SubSeq(script, a, b) \in Seq(Tokens)
      BY <2>5, <2>6, SubSeqProperties
    <2>8. Payload = SubSeq(script, a, b)
      BY <1>1, <1>3, <2>5
    <2> QED BY <2>7, <2>8
  <1> QED BY <1>2, <1>3

(* A guest whose header is garbage does not finish.                          *)
LEMMA GarbageIs ==
  ASSUME Typed, ~sentinel, Announced(script) = Unparsable PROVE ~Finishes
  <1>1. Len(Payload) \in Nat
    BY PayloadIs
  <1> QED BY <1>1 DEF Finishes, Unparsable

(* What the guests print, of each framing.                                   *)
LEMMA ScriptIs ==
  ASSUME Typed
  PROVE  ~sentinel /\ First(script, "size") # 0 =>
           /\ First(script, "halted") = 0
           /\ \A p \in First(script, "size") + 1 .. Len(script) :
                script[p].kind \in {"nl", "byte", "trail"}
           /\ Announced(script) \in Nat => \A p \in DOMAIN script :
                script[p].kind = "byte" <=>
                  /\ HeaderEnd(script) # 0
                  /\ p \in HeaderEnd(script) + 1 .. HeaderEnd(script) + Announced(script)
  <1>1. CASE ~sentinel
    <2>1. script \in Framed
      BY <1>1 DEF Typed
    <2> QED BY <1>1, <2>1, FramedAssumption
  <1> QED BY <1>1

(* The number of a header is one, or none that can be read.                  *)
LEMMA AnnouncedIs ==
  ASSUME Typed, First(script, "size") # 0
  PROVE  Announced(script) \in Nat \cup {Unparsable}
  <1>1. PICK i : i = First(script, "size")
    OBVIOUS
  <1>2. i \in 1 .. Len(script)
    <2>1. i \in 0 .. Len(script)
      BY <1>1, FirstIs DEF Typed
    <2> QED BY <1>1, <2>1 DEF Typed
  <1>3. script[i] \in Tokens
    BY <1>2 DEF Typed
  <1>4. script[i].n \in Nat \cup {Unparsable}
    BY <1>3 DEF Tokens
  <1> QED BY <1>1, <1>4 DEF Announced

(* A streamed text whose sentinel is beyond what of a mark of the other mode *)
(* has been received.                                                        *)
LEMMA MarkIsQuoted ==
  ASSUME Typed, sentinel, NEW m \in Nat, NEW k \in {"size", "halted"},
         First(script, k) # 0, First(script, k) <= m,
         First(script, "sentinel") > m
  PROVE  ReadsAsFramed
  <1>1. First(script, k) \in 0 .. Len(script) /\ First(script, "sentinel") \in 0 .. Len(script)
    BY FirstIs DEF Typed
  <1>2. First(script, k) \in 1 .. First(script, "sentinel") - 1
    BY <1>1 DEF Typed
  <1> QED BY <1>2 DEF ReadsAsFramed

(* All that a header announced, once it is there, is the payload.            *)
LEMMA BinaryIs ==
  ASSUME Typed, ~sentinel, HeaderEnd(out) # 0, Announced(out) # Unparsable, got >= PayloadEnd
  PROVE  Binary = Payload
  <1>1. PICK s, h, a, g : s = script /\ h = HeaderEnd(out) /\ a = Announced(out) /\ g = got
    OBVIOUS
  <1>2. /\ s \in Seq(Tokens) /\ Len(s) \in Nat /\ g \in 0 .. Len(s) /\ out = SubSeq(s, 1, g)
        /\ out \in Seq(Tokens) /\ Len(out) = g
    BY <1>1, OutIs DEF Typed, out
  <1>3. h \in 1 .. g /\ First(out, "size") # 0
    <2>1. HeaderEnd(out) \in 0 .. Len(out) /\ First(out, "size") # 0
      BY <1>2, HeaderIs
    <2> QED BY <1>1, <1>2, <2>1
  <1>4. HeaderEnd(script) = h /\ Announced(script) = a /\ First(script, "size") # 0
    BY <1>1, <1>3, OutIs, FirstIs DEF Typed
  <1>5. a \in Nat
    BY <1>1, <1>4, AnnouncedIs
  <1>6. PayloadEnd = h + a /\ h + a <= g
    BY <1>1, <1>2, <1>3, <1>5 DEF PayloadEnd
  <1> DEFINE bytes == {p \in DOMAIN script : script[p].kind = "byte"}
  <1>7. bytes = h + 1 .. h + a
    <2>1. \A p \in DOMAIN script : script[p].kind = "byte" <=> p \in h + 1 .. h + a
      BY <1>3, <1>4, <1>5, ScriptIs
    <2>2. \A p \in h + 1 .. h + a : p \in DOMAIN script
      BY <1>1, <1>2, <1>3, <1>5, <1>6
    <2> QED BY <2>1, <2>2
  <1>8. Payload = IF bytes = {} THEN <<>> ELSE SubSeq(s, Min(bytes), Max(bytes))
    BY <1>1 DEF Payload
  <1> HIDE DEF bytes
  <1>9. Binary = SubSeq(out, h + 1, h + a)
    <2>1. \A x, y \in Int : x <= y => Min({x, y}) = x
      <3> SUFFICES ASSUME NEW x \in Int, NEW y \in Int, x <= y PROVE Min({x, y}) = x
        OBVIOUS
      <3>1. x \in {x, y} /\ \A z \in {x, y} : x <= z
        OBVIOUS
      <3>2. \A z \in {x, y} : (\A w \in {x, y} : z <= w) => z = x
        OBVIOUS
      <3> QED BY <3>1, <3>2 DEF Min
    <2>2. Min({PayloadEnd, got}) = h + a
      <3>1. h + a \in Int /\ g \in Int /\ PayloadEnd = h + a /\ got = g
        <4>1. g \in Int
          BY <1>2
        <4>2. h \in Int
          BY <1>3, <4>1
        <4> QED BY <1>1, <1>5, <1>6, <4>1, <4>2
      <3> QED BY <1>6, <2>1, <3>1
    <2> QED BY <1>1, <2>2 DEF Binary
  <1>10. CASE a = 0
    <2>1. bytes = {}
      BY <1>3, <1>7, <1>10
    <2>2. Binary = <<>>
      BY <1>3, <1>9, <1>10, SubSeqEmpty
    <2> QED BY <1>8, <2>1, <2>2
  <1>11. CASE a > 0
    <2>1. bytes # {} /\ Min(bytes) = h + 1 /\ Max(bytes) = h + a
      <3>1. h + 1 \in Int /\ h + a \in Int /\ h + 1 <= h + a
        BY <1>3, <1>5, <1>11
      <3>2. bytes # {}
        BY <1>7, <3>1
      <3>3. Min(h + 1 .. h + a) = h + 1 /\ Max(h + 1 .. h + a) = h + a
        BY <3>1, IntervalEnds
      <3> QED BY <1>7, <3>2, <3>3
    <2>2. SubSeq(SubSeq(s, 1, g), h + 1, h + a) = SubSeq(s, h + 1, h + a)
      <3>1. /\ 1 \in 1 .. Len(s) /\ g \in 1 .. Len(s)
            /\ h + 1 \in 1 .. g - 1 + 1 /\ h + a \in 1 .. g - 1 + 1
        BY <1>2, <1>3, <1>5, <1>6, <1>11
      <3>2. SubSeq(SubSeq(s, 1, g), h + 1, h + a) = SubSeq(s, 1 + (h + 1) - 1, 1 + (h + a) - 1)
        BY <1>2, <3>1, SubSeqOfSubSeq
      <3>3. 1 + (h + 1) - 1 = h + 1 /\ 1 + (h + a) - 1 = h + a
        BY <1>3, <1>5
      <3> QED BY <3>2, <3>3
    <2> QED BY <1>2, <1>8, <1>9, <2>1, <2>2
  <1> QED BY <1>5, <1>10, <1>11

(* All that comes before the sentinel, once it is there, is the payload.     *)
LEMMA StreamIs ==
  ASSUME Typed, sentinel, First(out, "sentinel") # 0
  PROVE  SubSeq(out, 1, First(out, "sentinel") - 1) = Payload
  <1>1. PICK s, f, g : s = script /\ f = First(out, "sentinel") /\ g = got
    OBVIOUS
  <1>2. s \in Seq(Tokens) /\ Len(s) \in Nat /\ g \in 0 .. Len(s) /\ out = SubSeq(s, 1, g)
        /\ out \in Seq(Tokens) /\ Len(out) = g
    BY <1>1, OutIs DEF Typed, out
  <1>3. f \in 1 .. g /\ First(s, "sentinel") = f
    BY <1>1, <1>2, OutIs, FirstIs
  <1>4. Payload = SubSeq(s, 1, f - 1)
    BY <1>1, <1>3 DEF Payload
  <1>5. CASE f = 1
    <2>1. SubSeq(out, 1, f - 1) = <<>> /\ SubSeq(s, 1, f - 1) = <<>>
      BY <1>5, SubSeqEmpty
    <2> QED BY <1>1, <1>4, <2>1
  <1>6. CASE f > 1
    <2>1. 1 \in 1 .. Len(s) /\ g \in 1 .. Len(s) /\ 1 \in 1 .. g - 1 + 1 /\ f - 1 \in 1 .. g - 1 + 1
      BY <1>2, <1>3, <1>6
    <2>2. SubSeq(SubSeq(s, 1, g), 1, f - 1) = SubSeq(s, 1 + 1 - 1, 1 + (f - 1) - 1)
      BY <1>2, <2>1, SubSeqOfSubSeq
    <2>3. 1 + 1 - 1 = 1 /\ 1 + (f - 1) - 1 = f - 1
      BY <1>3
    <2> QED BY <1>1, <1>2, <1>4, <2>2, <2>3
  <1> QED BY <1>3, <1>5, <1>6

(* The lines before SIZE hold every diagnostic there is.                     *)
LEMMA DiagnosticsIs ==
  ASSUME Typed, ~sentinel, HeaderEnd(out) # 0
  PROVE  Diagnostics(out) = {p \in DOMAIN script : script[p].kind \in {"diag", "halted"}}
  <1>1. PICK s, i, g : s = script /\ i = First(out, "size") /\ g = got
    OBVIOUS
  <1>2. /\ s \in Seq(Tokens) /\ Len(s) \in Nat /\ g \in 0 .. Len(s) /\ DOMAIN s = 1 .. Len(s)
        /\ out \in Seq(Tokens) /\ Len(out) = g /\ \A p \in 1 .. g : out[p] = s[p]
    BY <1>1, OutIs DEF Typed
  <1>3. i \in 1 .. g /\ First(s, "size") = i
    BY <1>1, <1>2, OutIs, FirstIs, HeaderIs
  <1>4. s[i].kind = "size" /\ \A p \in i + 1 .. Len(s) : s[p].kind \in {"nl", "byte", "trail"}
    BY <1>1, <1>2, <1>3, FirstIs, ScriptIs
  <1> DEFINE header == SubSeq(out, 1, i - 1)
  <1>5. Len(header) = i - 1 /\ \A p \in 1 .. i - 1 : header[p] = s[p]
    <2>1. \A p \in 1 .. i - 1 : out[p] \in Tokens
      BY <1>2, <1>3
    <2>2. Len(header) = i - 1 /\ \A p \in 1 .. i - 1 : header[p] = out[p]
      BY <1>3, <2>1, SubSeqProperties
    <2> QED BY <1>2, <1>3, <2>2
  <1>6. Diagnostics(out) = {p \in 1 .. Len(header) : header[p].kind \in {"diag", "halted"}}
    BY <1>1, <1>3 DEF Diagnostics
  <1> HIDE DEF header
  <1>7. \A p : p \in 1 .. i - 1 /\ s[p].kind \in {"diag", "halted"}
               <=> p \in 1 .. Len(s) /\ s[p].kind \in {"diag", "halted"}
    <2> SUFFICES ASSUME NEW p \in 1 .. Len(s), s[p].kind \in {"diag", "halted"}
                 PROVE  p \in 1 .. i - 1
      BY <1>2, <1>3
    <2>1. p # i /\ ~(p \in i + 1 .. Len(s))
      BY <1>4
    <2> QED BY <1>2, <1>3, <2>1
  <1> QED BY <1>1, <1>2, <1>5, <1>6, <1>7
-----------------------------------------------------------------------------
(* A capture begins with nothing received.                                   *)
LEMMA InitCapture == Init => Inv
  <1> SUFFICES ASSUME Init PROVE Inv
    OBVIOUS
  <1>1. script \in Seq(Tokens)
    BY ScriptAssumption DEF Init
  <1>2. Typed
    <2>1. sent \in 0 .. Len(script) /\ got \in 0 .. sent
      BY <1>1 DEF Init
    <2>2. artifact.age = "stale" /\ sidecar.age = "stale" /\ map.age = "stale"
      BY Ages DEF Init
    <2> QED BY <1>1, <2>1, <2>2 DEF Init, Typed
  <1> QED BY <1>2 DEF Init, Inv, NeededInv, WaitInv, BodyInv, TrueMeansWhole, FailureIsTheGuests,
          NoDiagnosticLost

(* The parsing begins: nothing is received, found or written.                *)
LEMMA TurnsKeep ==
  ASSUME Inv, UNCHANGED <<sentinel, script, got, needed, result, artifact, sidecar, map>>,
         sent' \in 0 .. Len(script), got <= sent', alive' \in BOOLEAN, late' \in BOOLEAN,
         alive' => alive, late => late',
         \/ phase' = phase
         \/ phase' = "killed"
         \/ /\ phase = "reading" /\ phase' = IF sentinel THEN "body" ELSE "diags"
            /\ late' \/ ~alive' \/ (needed # None /\ got >= needed)
  PROVE  Inv'
  <1>1. Typed'
    <2>1. got' \in 0 .. sent'
      BY DEF Inv, Typed
    <2>2. phase' \in {"reading", "diags", "body", "map", "done", "killed"}
      BY DEF Inv, Typed
    <2> QED BY <2>1, <2>2 DEF Inv, Typed
  <1>2. NeededInv'
    BY DEF Inv, NeededInv, ReadsAsFramed
  <1>3. WaitInv'
    <2>1. CASE phase' = phase
      BY <2>1 DEF Inv, WaitInv
    <2>2. CASE phase' # phase
      BY <2>2 DEF Inv, WaitInv
    <2> QED BY <2>1, <2>2
  <1>4. BodyInv'
    <2>1. CASE phase' = phase
      BY <2>1 DEF Inv, BodyInv, out, PayloadEnd, Binary
    <2>2. CASE phase' # phase
      BY <2>2 DEF Inv, BodyInv
    <2> QED BY <2>1, <2>2
  <1>5. TrueMeansWhole' /\ NoDiagnosticLost'
    BY DEF Inv, TrueMeansWhole, NoDiagnosticLost, Payload
  <1>6. FailureIsTheGuests'
    <2>1. (Finishes' <=> Finishes) /\ (ReadsAsFramed' <=> ReadsAsFramed)
      BY DEF Finishes, Payload, ReadsAsFramed
    <2> QED BY <2>1 DEF Inv, FailureIsTheGuests
  <1> QED BY <1>1, <1>2, <1>3, <1>4, <1>5, <1>6 DEF Inv

(* A piece comes, and may show where the capture may stop.                   *)
LEMMA RecvKeeps ==
  ASSUME Inv, Recv PROVE Inv'
  <1>1. phase = "reading" /\ result = "none" /\ Typed
        /\ UNCHANGED <<sentinel, script, sent, alive, late, artifact, sidecar, map>>
    BY DEF Recv, guestVars, fileVars, Inv, WaitInv
  <1>2. PICK m \in got + 1 .. sent :
          LET s == SubSeq(script, 1, m)
          IN /\ got' = m
             /\ IF needed = None /\ BadHeader(s)
                  THEN Return("raised") /\ UNCHANGED needed
                  ELSE /\ needed' = IF needed = None THEN Needed(s) ELSE needed
                       /\ UNCHANGED <<phase, result>>
    BY DEF Recv
  <1> DEFINE s == SubSeq(script, 1, m)
  <1>3. /\ script \in Seq(Tokens) /\ m \in 1 .. Len(script) /\ m \in 0 .. Len(script)
        /\ m \in 0 .. sent /\ m \in Nat
    BY <1>1 DEF Typed
  <1>4. /\ s \in Seq(Tokens) /\ Len(s) = m
        /\ \A k : First(s, k) = IF First(script, k) <= m THEN First(script, k) ELSE 0
        /\ HeaderEnd(s) = IF HeaderEnd(script) <= m THEN HeaderEnd(script) ELSE 0
        /\ First(s, "size") # 0 => Announced(s) = Announced(script)
    <2>1. \A i \in 1 .. m : script[i] \in Tokens
      BY <1>3
    <2>2. s \in Seq(Tokens) /\ Len(s) = m
      BY <1>3, <2>1, SubSeqProperties
    <2> QED BY <1>3, <2>2, FirstOfPart, HeaderOfPart
  <1> HIDE DEF s
  <1>5. HeaderEnd(s) # 0 =>
          /\ HeaderEnd(script) = HeaderEnd(s) /\ HeaderEnd(s) \in 1 .. m
          /\ Announced(s) = Announced(script)
          /\ First(script, "size") # 0 /\ First(script, "size") <= m
    <2> SUFFICES ASSUME HeaderEnd(s) # 0
                 PROVE  /\ HeaderEnd(script) = HeaderEnd(s) /\ HeaderEnd(s) \in 1 .. m
                        /\ Announced(s) = Announced(script)
                        /\ First(script, "size") # 0 /\ First(script, "size") <= m
      OBVIOUS
    <2>1. HeaderEnd(s) \in 0 .. m /\ First(s, "size") # 0
      BY <1>4, HeaderIs
    <2>2. /\ HeaderEnd(script) = HeaderEnd(s)
          /\ First(script, "size") # 0 /\ First(script, "size") <= m
      BY <1>4, <2>1
    <2> QED BY <1>3, <1>4, <2>1, <2>2
  <1>6. got' = m
    BY <1>2
  <1>7. CASE needed = None /\ BadHeader(s)
    <2>1. phase' = "done" /\ result' = "raised" /\ needed' = needed
      BY <1>2, <1>7 DEF Return, s
    <2>2. ~Finishes \/ ReadsAsFramed
      <3>1. /\ HeaderEnd(s) # 0 /\ Announced(s) = Unparsable
            /\ sentinel => First(s, "sentinel") = 0
        BY <1>7 DEF BadHeader
      <3>2. CASE ~sentinel
        BY <1>1, <1>5, <3>1, <3>2, GarbageIs
      <3>3. CASE sentinel /\ First(script, "sentinel") = 0
        BY <3>3 DEF Finishes
      <3>4. CASE sentinel /\ First(script, "sentinel") # 0
        <4>1. First(script, "sentinel") > m
          <5>1. ~(First(script, "sentinel") <= m) /\ First(script, "sentinel") \in Nat
            BY <1>3, <1>4, <3>1, <3>4, FirstIs
          <5> QED BY <1>3, <5>1
        <4> QED BY <1>1, <1>3, <1>5, <3>1, <3>4, <4>1, MarkIsQuoted
      <3> QED BY <3>2, <3>3, <3>4
    <2>3. (Finishes' <=> Finishes) /\ (ReadsAsFramed' <=> ReadsAsFramed)
      BY <1>1 DEF Finishes, Payload, ReadsAsFramed
    <2>4. Typed'
      BY <1>1, <1>3, <1>6, <2>1 DEF Typed
    <2>5. NeededInv' /\ WaitInv' /\ BodyInv' /\ TrueMeansWhole' /\ NoDiagnosticLost'
      BY <1>7, <2>1 DEF NeededInv, WaitInv, BodyInv, TrueMeansWhole, NoDiagnosticLost
    <2> QED BY <2>2, <2>3, <2>4, <2>5 DEF Inv, FailureIsTheGuests
  <1>8. CASE ~(needed = None /\ BadHeader(s))
    <2>1. needed' = (IF needed = None THEN Needed(s) ELSE needed) /\ phase' = phase
          /\ result' = result
      BY <1>2, <1>8 DEF s
    <2>2. NeededInv' /\ (needed' = None \/ needed' \in Nat \ {0})
      <3>1. CASE needed # None
        BY <1>1, <2>1, <3>1 DEF Inv, NeededInv, Typed, ReadsAsFramed
      <3>2. CASE needed = None /\ sentinel
        <4>1. needed' = None \/ needed' \in Nat \ {0}
          <5>1. CASE First(s, "sentinel") # 0
            <6>1. needed' = First(s, "sentinel")
              BY <2>1, <3>2, <5>1 DEF Needed
            <6> QED BY <1>4, <5>1, <6>1, FirstIs
          <5>2. CASE First(s, "sentinel") = 0 /\ HeaderEnd(s) # 0
            <6>1. needed' = HeaderEnd(s) + Announced(s)
              BY <2>1, <3>2, <5>2 DEF Needed
            <6>2. Announced(s) \in Nat
              BY <1>1, <1>5, <1>8, <3>2, <5>2, AnnouncedIs DEF BadHeader
            <6>3. HeaderEnd(s) \in 1 .. m
              BY <1>5, <5>2
            <6> HIDE DEF Announced
            <6> QED BY <1>3, <6>1, <6>2, <6>3
          <5>3. CASE First(s, "sentinel") = 0 /\ HeaderEnd(s) = 0
            <6>1. needed' = m \/ needed' = None
              BY <1>4, <2>1, <3>2, <5>3 DEF Needed
            <6> QED BY <1>3, <6>1
          <5> QED BY <5>1, <5>2, <5>3
        <4>2. ASSUME needed' # None, First(script, "sentinel") # 0, ~ReadsAsFramed
              PROVE  needed' = First(script, "sentinel")
          <5>1. CASE First(s, "sentinel") # 0
            <6>1. needed' = First(s, "sentinel")
              BY <2>1, <3>2, <5>1 DEF Needed
            <6> QED BY <1>4, <5>1, <6>1
          <5>2. CASE First(s, "sentinel") = 0
            <6>1. First(script, "sentinel") > m
              <7>1. ~(First(script, "sentinel") <= m) /\ First(script, "sentinel") \in Nat
                BY <1>3, <1>4, <4>2, <5>2, FirstIs
              <7> QED BY <1>3, <7>1
            <6>2. HeaderEnd(s) = 0
              BY <1>1, <1>3, <1>5, <3>2, <4>2, <6>1, MarkIsQuoted
            <6>3. First(s, "halted") = 0
              <7> SUFFICES ASSUME First(s, "halted") # 0 PROVE FALSE
                OBVIOUS
              <7>1. First(script, "halted") # 0 /\ First(script, "halted") <= m
                BY <1>4
              <7> QED BY <1>1, <1>3, <3>2, <4>2, <6>1, <7>1, MarkIsQuoted
            <6>4. needed' = None
              BY <2>1, <3>2, <5>2, <6>2, <6>3 DEF Needed
            <6> QED BY <4>2, <6>4
          <5> QED BY <5>1, <5>2
        <4>3. sentinel' = sentinel /\ script' = script /\ (ReadsAsFramed' <=> ReadsAsFramed)
          BY <1>1 DEF ReadsAsFramed
        <4> QED BY <3>2, <4>1, <4>2, <4>3 DEF NeededInv
      <3>3. CASE needed = None /\ ~sentinel /\ HeaderEnd(s) # 0
        <4>1. needed' = HeaderEnd(s) + Announced(s)
          BY <2>1, <3>3 DEF Needed
        <4>2. Announced(s) # Unparsable
          BY <1>8, <3>3 DEF BadHeader
        <4>3. Announced(script) \in Nat
          BY <1>1, <1>5, <3>3, <4>2, AnnouncedIs
        <4> QED BY <1>1, <1>5, <3>3, <4>1, <4>3 DEF NeededInv
      <3>4. CASE needed = None /\ ~sentinel /\ HeaderEnd(s) = 0 /\ First(s, "halted") # 0
        <4>1. needed' = m
          BY <1>4, <2>1, <3>4 DEF Needed
        <4>2. First(script, "halted") # 0
          BY <1>4, <3>4
        <4>3. First(script, "size") = 0
          BY <1>1, <3>4, <4>2, ScriptIs
        <4> QED BY <1>1, <1>3, <3>4, <4>1, <4>3 DEF NeededInv
      <3>5. CASE needed = None /\ ~sentinel /\ HeaderEnd(s) = 0 /\ First(s, "halted") = 0
        <4>1. needed' = None
          BY <2>1, <3>5 DEF Needed
        <4> QED BY <4>1 DEF NeededInv
      <3> QED BY <1>1, <3>1, <3>2, <3>3, <3>4, <3>5 DEF Typed
    <2>3. Typed'
      BY <1>1, <1>3, <1>6, <2>1, <2>2 DEF Typed
    <2>4. WaitInv' /\ BodyInv' /\ TrueMeansWhole' /\ NoDiagnosticLost' /\ FailureIsTheGuests'
      BY <1>1, <2>1 DEF WaitInv, BodyInv, TrueMeansWhole, NoDiagnosticLost, FailureIsTheGuests
    <2> QED BY <2>2, <2>3, <2>4 DEF Inv
  <1> QED BY <1>7, <1>8

(* What the guest finished, and a driver that waited for it has received.    *)
LEMMA WaitedFor ==
  ASSUME Inv, phase \in {"diags", "body"}, alive, ~late, Finishes, ~ReadsAsFramed
  PROVE  IF sentinel THEN First(out, "sentinel") # 0
         ELSE /\ First(out, "size") # 0 /\ HeaderEnd(out) # 0 /\ Announced(out) # Unparsable
              /\ got >= PayloadEnd
  <1>1. Typed /\ needed # None /\ got >= needed /\ needed \in Nat \ {0} /\ got \in Nat
    BY OutIs DEF Inv, WaitInv, Typed
  <1>2. CASE sentinel
    BY <1>1, <1>2, OutIs DEF Inv, NeededInv, Finishes
  <1>3. CASE ~sentinel
    <2>1. /\ HeaderEnd(script) # 0 /\ Announced(script) \in Nat
          /\ needed = HeaderEnd(script) + Announced(script)
      BY <1>1, <1>3 DEF Inv, NeededInv, Finishes
    <2>2. HeaderEnd(script) \in Nat /\ First(script, "size") # 0
          /\ First(script, "size") < HeaderEnd(script) /\ First(script, "size") \in Nat
      BY <1>1, <2>1, HeaderIs, FirstIs DEF Typed
    <2>3. HeaderEnd(script) <= got /\ First(script, "size") <= got
      BY <1>1, <2>1, <2>2
    <2>4. First(out, "size") # 0 /\ HeaderEnd(out) = HeaderEnd(script)
          /\ Announced(out) = Announced(script)
      BY <1>1, <2>2, <2>3, OutIs
    <2>5. Announced(out) # Unparsable
      BY <2>1, <2>4 DEF Unparsable
    <2>6. got >= PayloadEnd
      BY <1>1, <2>1, <2>4 DEF PayloadEnd
    <2> QED BY <1>3, <2>1, <2>4, <2>5, <2>6
  <1> QED BY <1>2, <1>3

(* The parsing's steps receive nothing and find nothing.                     *)
LEMMA ParseKeeps ==
  ASSUME Inv, UNCHANGED <<sentinel, script, sent, alive, got, needed, late>>,
         phase' \in {"body", "map", "done"}, result' \in {"none", "true", "false", "raised"},
         artifact'.age \in {"stale", "fresh"}, sidecar'.age \in {"stale", "absent", "fresh"},
         map'.age \in {"stale", "fresh"}
  PROVE  /\ Typed' /\ NeededInv' /\ (Finishes' <=> Finishes) /\ Payload' = Payload
         /\ (ReadsAsFramed' <=> ReadsAsFramed)
         /\ out' = out /\ PayloadEnd' = PayloadEnd /\ Binary' = Binary
  <1>1. Typed'
    BY DEF Inv, Typed
  <1>2. NeededInv' /\ (ReadsAsFramed' <=> ReadsAsFramed)
    BY DEF Inv, NeededInv, ReadsAsFramed
  <1>3. out' = out /\ PayloadEnd' = PayloadEnd /\ Binary' = Binary /\ Payload' = Payload
    BY DEF out, PayloadEnd, Binary, Payload
  <1>4. Finishes' <=> Finishes
    BY <1>3 DEF Finishes
  <1> QED BY <1>1, <1>2, <1>3, <1>4

(* The header's lines are parsed into the sidecar.                           *)
LEMMA WriteDiagsKeeps ==
  ASSUME Inv, WriteDiags PROVE Inv'
  <1>1. /\ phase = "diags" /\ ~sentinel /\ result = "none" /\ Typed
        /\ sidecar' = FreshSidecar(Diagnostics(out))
        /\ UNCHANGED <<sentinel, script, sent, alive, got, needed, late, artifact, map>>
    BY DEF WriteDiags, guestVars, Inv, WaitInv
  <1>2. \/ First(out, "size") = 0 /\ phase' = "done" /\ result' = "false"
        \/ /\ HeaderEnd(out) = 0 \/ Announced(out) = Unparsable
           /\ phase' = "done" /\ result' = "raised"
        \/ /\ HeaderEnd(out) # 0 /\ Announced(out) # Unparsable
           /\ phase' = "body" /\ result' = result
    BY DEF WriteDiags, Return
  <1>3. /\ Typed' /\ NeededInv' /\ (Finishes' <=> Finishes) /\ Payload' = Payload
        /\ (ReadsAsFramed' <=> ReadsAsFramed)
        /\ out' = out /\ PayloadEnd' = PayloadEnd /\ Binary' = Binary
    <2>1. sidecar'.age \in {"stale", "absent", "fresh"}
      BY <1>1, Ages DEF FreshSidecar
    <2> QED BY <1>1, <1>2, <2>1, ParseKeeps DEF Typed
  <1>4. phase' # "diags" /\ phase' # "map" /\ phase' # "reading" /\ result' # "true"
    BY <1>1, <1>2
  <1>5. WaitInv'
    BY <1>1, <1>2 DEF Inv, WaitInv
  <1>6. BodyInv'
    BY <1>1, <1>2, <1>3 DEF BodyInv
  <1>7. FailureIsTheGuests'
    <2> SUFFICES ASSUME result' \in {"false", "raised"}, alive, ~late, Finishes,
                        ~ReadsAsFramed
                 PROVE  FALSE
      BY <1>1, <1>3 DEF FailureIsTheGuests
    <2>1. First(out, "size") # 0 /\ HeaderEnd(out) # 0 /\ Announced(out) # Unparsable
      BY <1>1, WaitedFor
    <2> QED BY <1>1, <1>2, <2>1
  <1>8. TrueMeansWhole' /\ NoDiagnosticLost'
    BY <1>4 DEF TrueMeansWhole, NoDiagnosticLost
  <1> QED BY <1>3, <1>5, <1>6, <1>7, <1>8 DEF Inv

(* The announced payload is written, if it is all there.                     *)
LEMMA WriteBinaryKeeps ==
  ASSUME Inv, WriteBinary PROVE Inv'
  <1>1. /\ phase = "body" /\ ~sentinel /\ result = "none" /\ Typed
        /\ UNCHANGED <<sentinel, script, sent, alive, got, needed, late, sidecar, map>>
    BY DEF WriteBinary, guestVars, Inv, WaitInv
  <1>2. \/ /\ got >= PayloadEnd /\ artifact' = Written(Binary)
           /\ phase' = "map" /\ result' = result
        \/ ~(got >= PayloadEnd) /\ phase' = "done" /\ result' = "false" /\ artifact' = artifact
    BY DEF WriteBinary, Return, NothingMissing
  <1>3. /\ Typed' /\ NeededInv' /\ (Finishes' <=> Finishes) /\ Payload' = Payload
        /\ (ReadsAsFramed' <=> ReadsAsFramed)
        /\ out' = out /\ PayloadEnd' = PayloadEnd /\ Binary' = Binary
    <2>1. artifact'.age \in {"stale", "fresh"}
      BY <1>1, <1>2, Ages DEF Typed
    <2> QED BY <1>1, <1>2, <2>1, ParseKeeps DEF Typed
  <1>4. WaitInv'
    BY <1>1, <1>2 DEF Inv, WaitInv
  <1>5. BodyInv'
    BY <1>1, <1>2, <1>3 DEF Inv, BodyInv
  <1>6. FailureIsTheGuests'
    <2> SUFFICES ASSUME result' \in {"false", "raised"}, alive, ~late, Finishes,
                        ~ReadsAsFramed
                 PROVE  FALSE
      BY <1>1, <1>3 DEF FailureIsTheGuests
    <2> QED BY <1>1, <1>2, WaitedFor
  <1>7. TrueMeansWhole' /\ NoDiagnosticLost'
    BY <1>1, <1>2 DEF TrueMeansWhole, NoDiagnosticLost
  <1> QED BY <1>3, <1>4, <1>5, <1>6, <1>7 DEF Inv

(* What follows the payload is the map, and the compile was good.            *)
LEMMA WriteMapKeeps ==
  ASSUME Inv, WriteMap PROVE Inv'
  <1>1. /\ phase = "map" /\ ~sentinel /\ Typed /\ phase' = "done" /\ result' = "true"
        /\ UNCHANGED <<sentinel, script, sent, alive, got, needed, late, artifact, sidecar>>
        /\ map' = IF Blank(Trailer) THEN map ELSE Written(Trailer)
    BY DEF WriteMap, Return, guestVars, Inv, WaitInv
  <1>2. /\ HeaderEnd(out) # 0 /\ Announced(out) # Unparsable
        /\ sidecar = FreshSidecar(Diagnostics(out))
        /\ got >= PayloadEnd /\ artifact = Written(Binary)
    BY <1>1 DEF Inv, BodyInv
  <1>3. /\ Typed' /\ NeededInv' /\ (Finishes' <=> Finishes) /\ Payload' = Payload
        /\ (ReadsAsFramed' <=> ReadsAsFramed)
        /\ out' = out /\ PayloadEnd' = PayloadEnd /\ Binary' = Binary
    <2>1. map'.age \in {"stale", "fresh"}
      BY <1>1, Ages DEF Typed
    <2> QED BY <1>1, <2>1, ParseKeeps DEF Typed
  <1>4. TrueMeansWhole'
    <2>1. Binary = Payload
      BY <1>1, <1>2, BinaryIs
    <2> QED BY <1>1, <1>2, <1>3, <2>1 DEF TrueMeansWhole
  <1>5. NoDiagnosticLost'
    <2> DEFINE said == {p \in DOMAIN script : script[p].kind \in {"diag", "halted"}}
    <2>1. sidecar' = FreshSidecar(said)
      BY <1>1, <1>2, DiagnosticsIs
    <2>2. sidecar' = IF said = {} THEN Absent({}) ELSE Written(said)
      BY <2>1 DEF FreshSidecar
    <2>3. script' = script
      BY <1>1
    <2> QED BY <2>2, <2>3 DEF NoDiagnosticLost
  <1>6. WaitInv' /\ BodyInv' /\ FailureIsTheGuests'
    BY <1>1 DEF WaitInv, BodyInv, FailureIsTheGuests
  <1> QED BY <1>3, <1>4, <1>5, <1>6 DEF Inv

(* All before the sentinel is written, if that is there.                     *)
LEMMA WriteStreamKeeps ==
  ASSUME Inv, WriteStream PROVE Inv'
  <1>1. /\ phase = "body" /\ sentinel /\ result = "none" /\ Typed /\ phase' = "done"
        /\ UNCHANGED <<sentinel, script, sent, alive, got, needed, late, sidecar, map>>
    BY DEF WriteStream, Return, guestVars, Inv, WaitInv
  <1>2. \/ /\ First(out, "sentinel") # 0 /\ result' = "true"
           /\ artifact' = Written(SubSeq(out, 1, First(out, "sentinel") - 1))
        \/ First(out, "sentinel") = 0 /\ result' = "false" /\ artifact' = artifact
    BY DEF WriteStream, Return, SentinelSeen
  <1>3. /\ Typed' /\ NeededInv' /\ (Finishes' <=> Finishes) /\ Payload' = Payload
        /\ (ReadsAsFramed' <=> ReadsAsFramed)
        /\ out' = out /\ PayloadEnd' = PayloadEnd /\ Binary' = Binary
    <2>1. artifact'.age \in {"stale", "fresh"}
      BY <1>1, <1>2, Ages DEF Typed
    <2> QED BY <1>1, <1>2, <2>1, ParseKeeps DEF Typed
  <1>4. TrueMeansWhole'
    <2> SUFFICES ASSUME result' = "true" PROVE artifact' = Written(Payload)
      BY <1>3 DEF TrueMeansWhole
    <2>1. First(out, "sentinel") # 0
          /\ artifact' = Written(SubSeq(out, 1, First(out, "sentinel") - 1))
      BY <1>2
    <2> QED BY <1>1, <2>1, StreamIs
  <1>5. FailureIsTheGuests'
    <2> SUFFICES ASSUME result' \in {"false", "raised"}, alive, ~late, Finishes,
                        ~ReadsAsFramed
                 PROVE  FALSE
      BY <1>1, <1>3 DEF FailureIsTheGuests
    <2> QED BY <1>1, <1>2, WaitedFor
  <1>6. WaitInv' /\ BodyInv' /\ NoDiagnosticLost'
    BY <1>1 DEF WaitInv, BodyInv, NoDiagnosticLost
  <1> QED BY <1>3, <1>4, <1>5, <1>6 DEF Inv

(* Every step, and every stutter, keeps it.                                  *)
LEMMA NextCapture == Inv /\ [Next]_vars => Inv'
  <1> SUFFICES ASSUME Inv, [Next]_vars PROVE Inv'
    OBVIOUS
  <1>1. /\ sent \in 0 .. Len(script) /\ got \in 0 .. sent /\ alive \in BOOLEAN /\ late \in BOOLEAN
        /\ Len(script) \in Nat /\ sent \in Nat /\ got \in Nat /\ got <= sent
    <2>1. Len(script) \in Nat /\ sent \in 0 .. Len(script) /\ got \in 0 .. sent
      BY DEF Inv, Typed
    <2> QED BY <2>1 DEF Inv, Typed
  <1>2. CASE Emit
    <2>1. sent' \in 0 .. Len(script) /\ got <= sent'
      BY <1>1, <1>2 DEF Emit
    <2> QED BY <1>1, <1>2, <2>1, TurnsKeep DEF Emit, fileVars
  <1>3. CASE QemuDies
    BY <1>1, <1>3, TurnsKeep DEF QemuDies, fileVars
  <1>4. CASE Quiet
    BY <1>1, <1>4, TurnsKeep DEF Quiet, QuietEnds, Parse, guestVars, fileVars
  <1>5. CASE Eof
    BY <1>1, <1>5, TurnsKeep DEF Eof, Parse, guestVars, fileVars
  <1>6. CASE Deadline
    BY <1>1, <1>6, TurnsKeep DEF Deadline, DeadlineChecked, Parse, guestVars, fileVars
  <1>7. CASE HostKilled
    BY <1>1, <1>7, TurnsKeep DEF HostKilled, guestVars, fileVars
  <1>8. CASE Ended \/ UNCHANGED vars
    BY <1>1, <1>8, TurnsKeep DEF Ended, vars
  <1>9. CASE Recv \/ WriteDiags \/ WriteBinary \/ WriteMap \/ WriteStream
    BY <1>9, RecvKeeps, WriteDiagsKeeps, WriteBinaryKeeps, WriteMapKeeps, WriteStreamKeeps
  <1> QED BY <1>2, <1>3, <1>4, <1>5, <1>6, <1>7, <1>8, <1>9 DEF Next, HostStep

(* The invariant holds of every guest's script, however it is cut.           *)
THEOREM Captured == Spec => []Inv
  BY InitCapture, NextCapture, PTL DEF Spec

(* Every variable keeps to its range.                                        *)
THEOREM TypeCorrect == Spec => []TypeOK
  <1>1. Inv => TypeOK
    BY DEF Inv, Typed, TypeOK
  <1> QED BY <1>1, Captured, PTL

(* However the stream is cut and whenever the capture ends, what is taken    *)
(* for the artifact is all of the payload.                                   *)
THEOREM TrueIsWhole == Spec => []TrueMeansWhole
  <1>1. Inv => TrueMeansWhole
    BY DEF Inv
  <1> QED BY <1>1, Captured, PTL

(* A guest that would have finished is not given up while it lives and there *)
(* is time, unless it streams a text that reads like the other mode's        *)
(* framing.                                                                  *)
THEOREM NeverGivesUpEarly == Spec => []FailureIsTheGuests
  <1>1. Inv => FailureIsTheGuests
    BY DEF Inv
  <1> QED BY <1>1, Captured, PTL

(* A good compile leaves every diagnostic beside its artifact, and no other. *)
THEOREM DiagnosticsKept == Spec => []NoDiagnosticLost
  <1>1. Inv => NoDiagnosticLost
    BY DEF Inv
  <1> QED BY <1>1, Captured, PTL
=============================================================================
