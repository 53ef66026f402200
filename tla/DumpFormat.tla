----------------------------- MODULE DumpFormat -----------------------------
(***************************************************************************)
(* The text form in which x86emit's binary leaves the guest: the harness of *)
(* emit_harness.py writes it, common.sections carves it up again for the    *)
(* boot verifier, and f3_run.zig parses it to call the code.                *)
(*                                                                          *)
(* A dump is a sequence of lines, and a reader may be given less than was   *)
(* written: the lines up to some point, the last of them cut anywhere.      *)
(***************************************************************************)
EXTENDS Integers, Sequences, SequencesExt

CONSTANTS
  Emissions,    \* what the compiler may hand to the harness
  LineBytes     \* bytes printed per line (32)

Byte == 0 .. 255

ASSUME DumpAssumption ==
  /\ LineBytes \in Nat \ {0}
  /\ \A e \in Emissions :
        /\ e.checks \in Nat /\ e.symbols \in Nat
        /\ e.diags \in Nat /\ e.errors \in 0 .. e.diags
        /\ e.header \in Seq(Byte) /\ e.content \in Seq(Byte) /\ e.tail \in Seq(Byte)

(* Lines, by what the readers tell apart.                                   *)
Pair(k, n)  == [kind |-> "pair", key |-> k, val |-> n]
Mark(name)  == [kind |-> "mark", key |-> name]
Bytes(bs)   == [kind |-> "bytes", val |-> bs]
Other(kind) == [kind |-> kind]
Dot == Other("dot")

-----------------------------------------------------------------------------
(* The harness.                                                             *)
ByteLines(bs) ==
  [l \in 1 .. (Len(bs) + LineBytes - 1) \div LineBytes |->
     Bytes(SubSeq(bs, (l - 1) * LineBytes + 1,
                  IF l * LineBytes < Len(bs) THEN l * LineBytes ELSE Len(bs)))]

Repeated(line, n) == [j \in 1 .. n |-> line]

BytesPrinted(e) == e.errors = 0

Section(name, bs) == <<Mark(name)>> \o ByteLines(bs) \o <<Dot>>

Dump(e) ==
  <<Pair("check-errors", e.checks), Pair("ir-defs", 1), Pair("emit-errors", e.errors),
    Pair("emit-diags", e.diags)>>
  \o Repeated(Other("diag"), e.diags) \o <<Dot>>
  \o (IF BytesPrinted(e)
        THEN <<Pair("header-len", Len(e.header)), Pair("content-len", Len(e.content)),
               Pair("tail-len", Len(e.tail)), Mark("symbols")>>
             \o Repeated(Other("symbol"), e.symbols) \o <<Dot>>
             \o Section("header", e.header) \o Section("content", e.content)
             \o Section("tail", e.tail)
        ELSE <<Other("halted")>>)
  \o <<Other("end")>>

(* A line cut anywhere: of a decimal number its first digits remain.        *)
Tens == {10, 100, 1000, 10000, 100000, 1000000, 10000000, 100000000, 1000000000}
Digits(n) == {n \div t : t \in Tens} \ {0}
CutBytes(bs) ==
  UNION {{Append(SubSeq(bs, 1, k - 1), d) : d \in {bs[k]} \cup Digits(bs[k])} : k \in 1 .. Len(bs)}
CutLines(line) ==
  CASE line.kind = "pair"            -> {Other("text")} \cup {Pair(line.key, d) : d \in Digits(line.val)}
    [] line.kind = "bytes"           -> {Bytes(bs) : bs \in CutBytes(line.val)}
    [] line.kind \in {"mark", "end"} -> {line, Other("text")}
    [] line.kind = "dot"             -> {}
    [] OTHER                         -> {Other("text")}

Cuts(d) ==
  {SubSeq(d, 1, n) : n \in 0 .. Len(d)}
  \cup UNION {{Append(SubSeq(d, 1, n - 1), line) : line \in CutLines(d[n])} : n \in 1 .. Len(d)}

VARIABLES
  emission,   \* what the harness was given
  dump,       \* the lines the reader was given
  i,          \* the line it is at
  mode,       \* "head", "sections", "done"
  lens,       \* the counts read from the head: a function of the keys seen
  sections,   \* the bytes carved out: a function of the names seen
  verdict     \* "none", "accepted", "refused"

vars == <<emission, dump, i, mode, lens, sections, verdict>>
given == <<emission, dump>>

Init ==
  /\ emission \in Emissions
  /\ dump \in Cuts(Dump(emission))
  /\ i = 1 /\ mode = "head" /\ verdict = "none"
  /\ lens = [k \in {} |-> 0] /\ sections = [p \in {} |-> <<>>]
-----------------------------------------------------------------------------
(* common.dump_body and common.sections.                                    *)
With(f, k, v) == [x \in DOMAIN f \cup {k} |-> IF x = k THEN v ELSE f[x]]
Lines == 1 .. Len(dump)
MutRefusesAndGoesOn == verdict' = "refused" /\ UNCHANGED <<i, lens, sections, mode>>
Refuse == mode' = "done" /\ verdict' = "refused" /\ UNCHANGED <<i, lens, sections>>

(* The lines a `key value` line of the head takes up: emit-diags takes its  *)
(* diagnostics and their closing dot with it.                               *)
MutDiagsForgotten(line) == 1
Extent(line) == IF line.key = "emit-diags" THEN line.val + 2 ELSE 1

Following == i + Extent(dump[i])

HeadLine ==
  /\ mode = "head" /\ i \in Lines /\ dump[i].kind # "mark"
  /\ IF /\ dump[i].kind = "pair"
        /\ Extent(dump[i]) > 1 => Following - 1 \in Lines /\ dump[Following - 1] = Dot
       THEN /\ lens' = With(lens, dump[i].key, dump[i].val)
            /\ i' = Following
            /\ UNCHANGED <<mode, sections, verdict>>
       ELSE Refuse
  /\ UNCHANGED given

(* dump_body has refused a dump without its first line.                     *)
HeadEnds ==
  /\ mode = "head" /\ (i \in Lines => dump[i].kind = "mark")
  /\ IF Len(dump) = 0 THEN Refuse
     ELSE mode' = "sections" /\ UNCHANGED <<i, lens, sections, verdict>>
  /\ UNCHANGED given

(* A section: the lines up to a dot, or to the end of what there is.        *)
SectionEnd == LET rest == SubSeq(dump, i + 1, Len(dump))
                  j == SelectInSeq(rest, LAMBDA line : line = Dot)
              IN IF j = 0 THEN Len(dump) + 1 ELSE i + j

BodyBytes == FlattenSeq([l \in 1 .. SectionEnd - i - 1 |-> dump[i + l].val])

LenKey(name) == CASE name = "header"  -> "header-len"
                  [] name = "content" -> "content-len"
                  [] OTHER            -> "tail-len"

MutLengthTrusted(name, bytes) == TRUE
LengthMatches(name, bytes) == lens[LenKey(name)] = Len(bytes)

Carve ==
  /\ mode = "sections" /\ i \in Lines /\ dump[i].kind # "end"
  /\ LET name == dump[i].key
     IN IF dump[i].kind # "mark" THEN Refuse
        ELSE IF name = "symbols"
          THEN i' = SectionEnd + 1 /\ UNCHANGED <<mode, lens, sections, verdict>>
        ELSE IF /\ \A l \in i + 1 .. SectionEnd - 1 : dump[l].kind = "bytes"
                /\ LenKey(name) \in DOMAIN lens
                /\ LengthMatches(name, BodyBytes)
          THEN /\ sections' = With(sections, name, BodyBytes)
               /\ i' = SectionEnd + 1
               /\ UNCHANGED <<mode, lens, verdict>>
        ELSE Refuse
  /\ UNCHANGED given

Finish ==
  /\ mode = "sections" /\ (i \in Lines => dump[i].kind = "end")
  /\ mode' = "done"
  /\ verdict' = IF DOMAIN sections = {"header", "content", "tail"}
                  THEN "accepted" ELSE "refused"
  /\ UNCHANGED <<given, i, lens, sections>>

Done == mode = "done" /\ UNCHANGED vars

Next == HeadLine \/ HeadEnds \/ Carve \/ Finish \/ Done

Spec == Init /\ [][Next]_vars
-----------------------------------------------------------------------------
(* f3_run's parser: every line in its place.  It looks at nothing behind    *)
(* the dot that closes the tail.                                            *)
ByteLinesEnd(d, n) ==               \* the first line from n on that is not bytes
  LET j == SelectInSeq(SubSeq(d, n, Len(d)), LAMBDA l : l.kind # "bytes")
  IN IF j = 0 THEN Len(d) + 1 ELSE n - 1 + j

MutEndCloses(d, e) == e = Len(d) + 1 \/ d[e] = Dot
Closes(d, e) == e \in DOMAIN d /\ d[e] = Dot

F3Section(d, n, name, want) ==     \* where the section at line n ends, or 0
  LET e == ByteLinesEnd(d, n + 1)
  IN IF /\ n \in DOMAIN d /\ d[n] = Mark(name)
        /\ Closes(d, e)
        /\ want = Len(FlattenSeq([l \in 1 .. e - n - 1 |-> d[n + l].val]))
       THEN e ELSE 0

F3Parses(d) ==
  LET keys == <<"check-errors", "ir-defs", "emit-errors", "emit-diags">>
      lengths == <<"header-len", "content-len", "tail-len">>
      s == SelectInSeq(SubSeq(d, 10, Len(d)), LAMBDA l : l.kind # "symbol") + 9
      h == F3Section(d, s + 1, "header", d[6].val)
      c == F3Section(d, h + 1, "content", d[7].val)
      t == F3Section(d, c + 1, "tail", d[8].val)
  IN /\ Len(d) > 9
     /\ \A k \in 1 .. 4 : d[k].kind = "pair" /\ d[k].key = keys[k]
     /\ d[1].val = 0 /\ d[3].val = 0
     /\ d[5] = Dot
     /\ \A k \in 1 .. 3 : d[5 + k].kind = "pair" /\ d[5 + k].key = lengths[k]
     /\ d[9] = Mark("symbols")
     /\ s > 9 /\ d[s] = Dot
     /\ h # 0 /\ c # 0 /\ t # 0
-----------------------------------------------------------------------------
(* Every variable keeps to its range.                                       *)
TypeOK ==
  /\ emission \in Emissions /\ i \in 1 .. Len(dump) + 2
  /\ mode \in {"head", "sections", "done"}
  /\ verdict \in {"none", "accepted", "refused"}
  /\ \A k \in DOMAIN lens : lens[k] \in Nat
  /\ DOMAIN sections \subseteq {"header", "content", "tail"}
  /\ mode = "done" <=> verdict # "none"

(* The file that is booted is the one the compiler emitted, and none is     *)
(* carved from a dump of errors: however a dump is cut, no byte is missing, *)
(* and only a cut inside the digits of the last one can change it.          *)
CarvedAsEmitted ==
  verdict = "accepted" =>
    /\ emission.errors = 0
    /\ sections["header"] = emission.header /\ sections["content"] = emission.content
    /\ Len(sections["tail"]) = Len(emission.tail)
    /\ LET sound == Len(emission.tail) - (IF IsPrefix(dump, Dump(emission)) THEN 0 ELSE 1)
       IN \A k \in 1 .. sound : sections["tail"][k] = emission.tail[k]

(* Every whole dump of bytes is booted, diagnostics or not, and f3_run      *)
(* parses one that has none.                                                *)
CleanIsAccepted ==
  mode = "done" /\ dump = Dump(emission) /\ emission.errors = 0 =>
    /\ verdict = "accepted"
    /\ emission.diags = 0 /\ emission.checks = 0 => F3Parses(dump)

(* f3_run calls nothing that was cut short or that the compiler refused: of *)
(* a dump it parses only the closing mark may be missing.                   *)
CalledIsWhole ==
  F3Parses(dump) =>
    /\ emission.errors = 0 /\ emission.checks = 0
    /\ Len(dump) >= Len(Dump(emission)) - 1
=============================================================================
