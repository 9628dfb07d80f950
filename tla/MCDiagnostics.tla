----------------------------- MODULE MCDiagnostics -----------------------------
(***************************************************************************)
(* The diagnostics for TLC.                                                *)
(***************************************************************************)
EXTENDS DiagnosticsProperties

\* The characters that are escaped and their escapes, each of which another name
\* would become if it were escaped or unescaped wrongly; and a name like the number
\* of an iteration.
Names ==
  {[loop |-> <<"a", "/", "0">>, work |-> <<"~", "0", "1">>, inner |-> <<"/">>,
    leaf |-> <<"~", "1">>],
   [loop |-> <<"a">>, work |-> <<"1">>, inner |-> <<"b">>, leaf |-> <<"b">>]}
=============================================================================
