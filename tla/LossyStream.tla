------------------------------ MODULE LossyStream ------------------------------
(***************************************************************************)
(* What the way from a session to the aggregators of a symbol promises:    *)
(* the trades fed in come out at every reader in their order and none      *)
(* twice; some are lost on the way, for all readers or for one of them,    *)
(* each of them counted when it is lost.                                   *)
(***************************************************************************)
EXTENDS Naturals, Sequences, SequencesExt

CONSTANT Readers

VARIABLES
  fed,      \* number of trades fed in: they are 1, 2, ..., fed
  transit,  \* trades on their way to each reader
  out,      \* trades come out at each reader
  lost      \* trades counted as lost for each reader

streamVars == <<fed, transit, out, lost>>

Init ==
  /\ fed = 0
  /\ transit = [r \in Readers |-> <<>>]
  /\ out = [r \in Readers |-> <<>>]
  /\ lost = [r \in Readers |-> 0]

Feed ==
  /\ fed' = fed + 1
  /\ transit' = [r \in Readers |-> Append(transit[r], fed + 1)]
  /\ UNCHANGED <<out, lost>>

Refuse ==
  /\ fed' = fed + 1
  /\ lost' = [r \in Readers |-> lost[r] + 1]
  /\ UNCHANGED <<transit, out>>

Lose(r) ==
  /\ \E i \in DOMAIN transit[r] : transit' = [transit EXCEPT ![r] = RemoveAt(@, i)]
  /\ lost' = [lost EXCEPT ![r] = @ + 1]
  /\ UNCHANGED <<fed, out>>

Deliver(r) ==
  /\ transit[r] # <<>>
  /\ out' = [out EXCEPT ![r] = Append(@, Head(transit[r]))]
  /\ transit' = [transit EXCEPT ![r] = Tail(@)]
  /\ UNCHANGED <<fed, lost>>

Next == Feed \/ Refuse \/ \E r \in Readers : Lose(r) \/ Deliver(r)
Spec == Init /\ [][Next]_streamVars

=============================================================================
