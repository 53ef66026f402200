--------------------------- MODULE MCDumpFormat ---------------------------
(* DumpFormat over small binaries: empty sections, sections of one line and  *)
(* of several, warnings, and a compile that recorded errors.                 *)
EXTENDS DumpFormat

Of(checks, ds, es, syms, h, c, t) ==
  [checks |-> checks, diags |-> ds, errors |-> es, symbols |-> syms,
   header |-> h, content |-> c, tail |-> t]

Contents == {<<>>, <<195>>, <<7, 200, 34>>}
Tails == {<<>>, <<12, 5, 90>>}

(* No diagnostics; warnings only; errors, alone and among warnings.         *)
Bags == {<<0, 0>>, <<2, 0>>, <<1, 1>>, <<3, 1>>}

Every == { Of(checks, bag[1], bag[2], syms, <<67, 1>>, c, t) :
             checks \in 0 .. 1, bag \in Bags, syms \in 0 .. 2, c \in Contents, t \in Tails }
=============================================================================
