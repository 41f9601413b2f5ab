---------------------------- MODULE MCItemStore ----------------------------
(* ItemStore for TLC: a pull request with one item and an issue with one.  *)
EXTENDS ItemStore, TLC

CONSTANTS pr, bug

MCTypeOf == [i \in Items |-> i]
MCPageOf == [i \in Items |-> i]
\* Two points an hour, at most three.
MCAgeSetting == {[mult |-> 2, max |-> 3]}
\* Two points an hour, at most three; and a boost that is switched off.
MCAgeSettings == {[mult |-> 2, max |-> 3], [mult |-> 0, max |-> 3]}
=============================================================================
