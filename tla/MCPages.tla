------------------------------ MODULE MCPages -------------------------------
(* Pages for TLC: a pull request with one item, an issue with one,
   and a pull request of the user with none; two tabs of an earlier
   session. *)
EXTENDS Pages

CONSTANTS t1, t2, pr, own, issue, prItem, issueItem

MCThingOf == [i \in Items |-> IF i = prItem THEN pr ELSE issue]
MCRank == [i \in Items |-> IF i = prItem THEN 2 ELSE 1]
MCOpened == {[t \in Tabs |-> IF t = t1 THEN x ELSE issue] : x \in {"feed", issue}}
=============================================================================
