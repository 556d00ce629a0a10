--------------------------- MODULE MCSignatureProof --------------------------
(* Five keys: a tree of four layers whose fifth leaf is padded three times. *)
EXTENDS SignatureProof

Right(sch, i) == [id |-> i, sig |-> KeyOf(sch, i)]

\* The signature of another node, one that was added twice, an id out of range,
\* bytes that are no signature.
Bad(sch) ==
    {[id |-> 0, sig |-> Add(Unit(0), Unit(0))], [id |-> NNodes, sig |-> Unit(0)],
     [id |-> Parent(0), sig |-> Unit(0)], [id |-> 1, sig |-> Undecodable]}

\* Overlapping aggregates in both orders, new and old signers, good and bad.
Pairs(sch) ==
    IF sch = "simple"
    THEN {<<Right(sch, 0), Right(sch, 1)>>, <<Right(sch, 3), [id |-> 2, sig |-> Unit(0)]>>}
    ELSE {<<Right(sch, 0), Right(sch, Parent(0))>>, <<Right(sch, Parent(2)), Right(sch, 3)>>,
          <<[id |-> Root, sig |-> Unit(4)], Right(sch, 4)>>}

MCSparse(sch) ==
    {<<Right(sch, i)>> : i \in Ids(sch)} \cup {<<b>> : b \in Bad(sch)} \cup Pairs(sch)

MCOthers(sch) == {New(sch)} \cup {MergeSparse(sch, New(sch), s).p : s \in Pairs(sch)}
=============================================================================
