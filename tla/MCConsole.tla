----------------------------- MODULE MCConsole -----------------------------
(***************************************************************************)
(* Instance of Console: two columns, which are one tab stop apart, three   *)
(* lines, and video memory for four.                                       *)
(***************************************************************************)
EXTENDS Console

MCDigits == {"1", "2", "3"}
\* One console without beeps and attributes, and one with little else.
MCWorkloads ==
  {Chars \ {"BEL", "m"}, {"BEL", "m", "ESC", "[", "1", "LF", "CR", "TAB", "G"}}

MCEchoed == {"LF", "G"}
MCCut == {"CR"}

\* Nothing is promised after an echo in the middle of a character.
Apart == ~nested

\* No step of console.c looks at what a cell holds, so states that differ in
\* the picture alone have the same steps.  The parameters are cleared before
\* they are used, and the cursor register is set when con_write returns.
ControlView ==
  <<[con EXCEPT !.mem = << >>,
                !.par = IF con.state = 3 THEN @ ELSE << >>,
                !.npar = IF con.state = 3 THEN @ ELSE 0,
                !.crt.cursor = IF writing THEN 0 ELSE @],
    NeighboursIntact, writing, keys, nested>>
=============================================================================
