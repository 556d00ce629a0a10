------------------------------ MODULE SignerSet ------------------------------
(***************************************************************************)
(* What the engine takes a signature proof for: the set of the keys that   *)
(* signed the message.  Input adds signers, and the result of a merge says *)
(* whether the input was clean, whether it brought anything new, and that  *)
(* it has more than all the signers so far, and can be passed on instead.  *)
(* Input that is foreign or unranked is not compared with the signers.     *)
(***************************************************************************)
CONSTANT Keys

VARIABLES signers, input, result

Inputs == [signers : SUBSET Keys, clean : BOOLEAN,
           form : {"full", "sparse", "unranked", "foreign"}]

Init ==
    /\ signers = {}
    /\ input \in [signers : {{}}, clean : {TRUE}, form : {"sparse", "unranked"}]
    /\ result = [all |-> TRUE, increased |-> FALSE, strict |-> FALSE]

\* The owner of the proof signs.
Sign(k) ==
    /\ signers' = signers \cup {k}
    /\ UNCHANGED <<input, result>>

\* Two empty full proofs count as a strict superset of each other.
StrictSuperset(m) ==
    /\ m.form \in {"full", "sparse"}
    /\ signers \subseteq m.signers
    /\ signers = m.signers => m.form = "full" /\ signers = {}

Receive ==
    /\ input' \in Inputs
    /\ signers' = signers \cup input'.signers
    /\ result' = [all |-> input'.clean,
                  increased |-> ~(input'.signers \subseteq signers),
                  strict |-> StrictSuperset(input')]

Next ==
    \/ \E k \in Keys : Sign(k)
    \/ Receive

Spec == Init /\ [][Next]_<<signers, input, result>>
=============================================================================
