------------------------------ MODULE MCQuickMap ------------------------------
(***************************************************************************)
(* Four contexts that create directories in three frames, and two that     *)
(* copy two frames, each kind by itself; or all of them together.          *)
(***************************************************************************)
EXTENDS QuickMap

Apart     == {Creator, Copier}
AllAtOnce == {Creator \union Copier}
===============================================================================
