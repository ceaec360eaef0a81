----------------------------- MODULE MCKeyboard -----------------------------
(***************************************************************************)
(* Bounded instances of Keyboard for TLC.                                  *)
(***************************************************************************)
EXTENDS Keyboard

\* A reader of lines and a reader of single characters.
MCReaders == {"line", "char"}
MCCount == [r \in MCReaders |-> IF r = "line" THEN 3 ELSE 2]
=============================================================================
