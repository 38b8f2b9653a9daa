------------------------------- MODULE Mirror -------------------------------
(***************************************************************************)
(* A copy of records that live elsewhere.  At their source records appear  *)
(* and advance through stages; the copy takes over records, each in some   *)
(* stage it has been in, and neither invents nor loses one.                *)
(***************************************************************************)
EXTENDS Naturals

CONSTANT Records

VARIABLES
    source,     \* stage of each record at its source, 0: not there yet
    copy        \* stage in which it was last copied, 0: not yet

vars == <<source, copy>>

TypeOK ==
    /\ source \in [Records -> Nat]
    /\ copy \in [Records -> Nat]

Init ==
    /\ source = [r \in Records |-> 0]
    /\ copy = [r \in Records |-> 0]

Advance(r) ==
    /\ source' = [source EXCEPT ![r] = @ + 1]
    /\ UNCHANGED copy

CopyRecord(r) ==
    /\ \E stage \in 1..source[r] : copy' = [copy EXCEPT ![r] = stage]
    /\ UNCHANGED source

Next == \E r \in Records : Advance(r) \/ CopyRecord(r)

Spec == Init /\ [][Next]_vars
=============================================================================
