--------------------------- MODULE SignatureProof ----------------------------
(***************************************************************************)
(* The two implementations of gcrypto.CommonMessageSignatureProof: the     *)
(* simple one, a map of signatures to keys, and the BLS one, a SigTree.    *)
(* One proof receives everything its owner and its peers may give it: the  *)
(* owner's signature, sparse proofs from the network in any order, any     *)
(* number of times and with bad entries, and other full proofs.            *)
(*                                                                         *)
(* A sparse signature is [id, sig]; the id is the index of a key, or of a  *)
(* node of the tree.  A signature verifies if it is the point of the key.  *)
(* An input is what the signatures were sent as, and the signatures.       *)
(***************************************************************************)
EXTENDS SigTree

CONSTANTS
    Sparse(_),   \* the sparse proofs that arrive, for a scheme
    Others(_)    \* the full proofs that are merged, for a scheme

VARIABLES scheme, proof, input, result, crashed

vars == <<scheme, proof, input, result, crashed>>

Schemes == {"simple", "bls"}
New(sch) == IF sch = "bls" THEN EmptyTree ELSE [sigs |-> {}, bits |-> {}]
Ids(sch) == IF sch = "bls" THEN Node ELSE Leaf

KeyOf(sch, id) == IF sch = "bls" THEN keys[id] ELSE Unit(id)

\* Bytes that are no compressed point; Uncompress returns nil for them.
Undecodable == [k \in Leaf |-> -1]

Verify(sch, id, sig) == KeyOf(sch, id) # ZeroPoint /\ sig = KeyOf(sch, id)

\* Type invariant.
TypeOK ==
    /\ scheme \in Schemes
    /\ proof.bits \subseteq Leaf
    /\ scheme = "bls" => proof.sigs \in [Node -> [Leaf -> 0..1]]
    /\ scheme = "simple" => proof.sigs \subseteq [sig : [Leaf -> 0..1], key : Leaf]
    /\ result \in [all : BOOLEAN, increased : BOOLEAN, strict : BOOLEAN]
    /\ crashed \in BOOLEAN
-----------------------------------------------------------------------------
(* SimpleCommonMessageSignatureProof *)

SimpleAdd(p, id, sig) ==
    [sigs |-> p.sigs \cup {[sig |-> sig, key |-> id]}, bits |-> p.bits \cup {id}]

SimpleSparse(a, s) ==
    IF s.id \notin Leaf \/ ~Verify("simple", s.id, s.sig)
    THEN [a EXCEPT !.all = FALSE]
    ELSE [a EXCEPT !.p = SimpleAdd(@, s.id, s.sig), !.added = @ \cup {s.id}]
-----------------------------------------------------------------------------
(* gblsminsig.SignatureProof *)

\* Adds the signature of an inner node without verifying it.
TreeSparseUnverified(a, s) ==
    IF s.id \notin Node \/ (s.id \in Leaf /\ ~Verify("bls", s.id, s.sig))
    THEN [a EXCEPT !.all = FALSE]
    ELSE [a EXCEPT !.p = AddSignature(@, s.id, s.sig)]

\* A signature that is already there is compared with what Uncompress returned,
\* without a look whether that is nil: undecodable bytes end the process.
TreeSparse(a, s) ==
    CASE s.id \notin Node -> [a EXCEPT !.all = FALSE]
      [] s.id \in Node /\ Has(a.p, s.id) ->
           [a EXCEPT !.crashed = (s.sig = Undecodable),
                     !.all = @ /\ a.p.sigs[s.id] = s.sig]
      [] s.id \in Node /\ ~Has(a.p, s.id) ->
           IF Verify("bls", s.id, s.sig)
           THEN [a EXCEPT !.p = AddSignature(@, s.id, s.sig)]
           ELSE [a EXCEPT !.all = FALSE]
-----------------------------------------------------------------------------
(* Both *)

\* The signature of a node under the key ID it is sent with.
Sent(i, sig) == [id |-> i % 2^KeyIDBits, sig |-> sig]

AsSparse(sch, p) ==
    IF sch = "bls"
    THEN LET ids == SparseIndices(p)
         IN [n \in DOMAIN ids |-> Sent(ids[n], p.sigs[ids[n]])]
    ELSE SetToSortSeq({Sent(x.key, x.sig) : x \in p.sigs}, LAMBDA s, t : s.id < t.id)

MergeSparse(sch, p, s) ==
    LET Step(a, x) == IF a.crashed THEN a
                      ELSE IF sch = "bls" THEN TreeSparse(a, x) ELSE SimpleSparse(a, x)
        a == FoldLeft(Step, [p |-> p, all |-> TRUE, added |-> {}, crashed |-> FALSE], s)
    IN [p |-> a.p,
        crashed |-> a.crashed,
        res |-> [all |-> a.all,
                 increased |-> a.p.bits # p.bits,
                 strict |-> sch = "simple" /\ p.bits \subseteq a.added /\ p.bits # a.added]]

\* Compares the numbers of signatures to see which proof has more.
LooksLikeSupersetCounted(p, o) == Cardinality(o.bits) >= Cardinality(p.bits)

LooksLikeSuperset(p, o) ==
    \/ o.bits = {} /\ p.bits = {}
    \/ p.bits \subseteq o.bits /\ p.bits # o.bits

\* Merge verifies what other would send.
Merge(sch, p, o) ==
    LET m == MergeSparse(sch, p, AsSparse(sch, o))
    IN [p |-> m.p,
        res |-> [m.res EXCEPT !.strict = LooksLikeSuperset(p, o) /\ m.res.all]]

HasSparseKeyID(sch, p, id) ==
    IF sch = "bls" THEN Has(p, id) ELSE id \in p.bits

NoMatch == [all |-> FALSE, increased |-> FALSE, strict |-> FALSE]

Init ==
    /\ scheme \in Schemes
    /\ proof = New(scheme)
    /\ input = [form |-> "sparse", sigs |-> <<>>]
    /\ result = [all |-> TRUE, increased |-> FALSE, strict |-> FALSE]
    /\ crashed = FALSE

\* AddSignature with the signature of the local signer.
Sign(k) ==
    /\ ~crashed
    /\ proof' = IF scheme = "simple" THEN SimpleAdd(proof, k, Unit(k))
                ELSE IF Has(proof, k) THEN proof ELSE AddSignature(proof, k, Unit(k))
    /\ UNCHANGED <<scheme, input, result, crashed>>

\* A crash takes the proof with it, and nobody sees a result.
ReceiveSparse(s) ==
    LET m == MergeSparse(scheme, proof, s)
    IN /\ ~crashed
       /\ IF m.crashed
          THEN crashed' = TRUE /\ UNCHANGED <<proof, input, result>>
          ELSE /\ proof' = m.p /\ result' = m.res
               /\ input' = [form |-> "sparse", sigs |-> s]
               /\ UNCHANGED crashed
       /\ UNCHANGED scheme

ReceiveFull(o) ==
    LET m == Merge(scheme, proof, o)
    IN /\ ~crashed
       /\ proof' = m.p /\ result' = m.res
       /\ input' = [form |-> "full", sigs |-> AsSparse(scheme, o)]
       /\ UNCHANGED <<scheme, crashed>>

\* Another message or another set of keys.
ReceiveForeign ==
    /\ ~crashed
    /\ result' = NoMatch
    /\ input' = [form |-> "foreign", sigs |-> <<[id |-> -1, sig |-> ZeroPoint]>>]
    /\ UNCHANGED <<scheme, proof, crashed>>

Next ==
    \/ \E k \in Leaf : Sign(k)
    \/ \E s \in Sparse(scheme) : ReceiveSparse(s)
    \/ \E o \in Others(scheme) : ReceiveFull(o)
    \/ ReceiveForeign

Spec == Init /\ [][Next]_vars
-----------------------------------------------------------------------------
(* Properties *)

Covers(sch, id) == IF sch = "bls" THEN LeavesOf(id) ELSE {id}

\* The keys whose signatures an input really holds.
GoodIn(s) == {n \in DOMAIN s : s[n].id \in Ids(scheme) /\ Verify(scheme, s[n].id, s[n].sig)}
SignersIn(s) == UNION {Covers(scheme, s[n].id) : n \in GoodIn(s)}
Meaning(in) ==
    [signers |-> SignersIn(in.sigs),
     clean |-> GoodIn(in.sigs) = DOMAIN in.sigs,
     form |-> IF in.form = "sparse" /\ scheme = "bls" THEN "unranked" ELSE in.form]

Set == INSTANCE SignerSet WITH
    Keys <- Leaf, signers <- proof.bits, input <- Meaning(input)

\* Both implementations behave as the set of signers for which the mirror takes
\* them, with aggregates that overlap, arrive twice or are bad: the bit set
\* grows by what the input proves, and the merge result is about that.  A merge
\* reports a strict superset if and only if the other proof has everything that
\* this one has and more, so that it can be passed on in its place; for a sparse
\* BLS proof it never does (MergeSparse: "how to check WasStrictSuperset?").
ImplementsSignerSet == Set!Spec

\* Every stored signature is made of each signature of its keys exactly once,
\* whatever was merged before: no validator is counted twice in an aggregate.
SignaturesVerify ==
    /\ scheme = "bls" =>
         \A i \in Node : Has(proof, i) =>
           proof.sigs[i] = [k \in Leaf |-> IF k \in LeavesOf(i) THEN 1 ELSE 0]
    /\ scheme = "simple" => \A x \in proof.sigs : x.sig = Unit(x.key)

\* The bit set that vote powers are computed from has exactly the validators
\* whose signatures are stored.
BitsAreSigned ==
    proof.bits = IF scheme = "bls" THEN UNION {LeavesOf(i) : i \in {j \in Node : Has(proof, j)}}
                 ELSE {x.key : x \in proof.sigs}

\* The mirror drops incoming signatures that HasSparseKeyID reports: it never
\* reports one whose signers are not all counted.
HasMeansCounted ==
    \A id \in Ids(scheme) :
      HasSparseKeyID(scheme, proof, id) => Covers(scheme, id) \subseteq proof.bits

\* What the vote powers are computed from: the bit set has exactly the
\* validators whose signatures are stored and valid, each counted once.
SignersCounted == TypeOK /\ SignaturesVerify /\ BitsAreSigned /\ HasMeansCounted

\* Signatures of both halves of a node are always aggregated, padding
\* included: the sparse form has no two that could be one.
FullyAggregated ==
    scheme = "bls" =>
      \A i \in Node \ {Root} :
        (Has(proof, i) /\ (Has(proof, Neighbor(i)) \/ keys[Neighbor(i)] = ZeroPoint)) =>
          Has(proof, Parent(i))

\* A proof that is saved or sent in its sparse form and read back by
\* toFullProofMap has the same signers, and does not meet that function's panic;
\* the sparse form has no two signatures that could be one.
SparseRoundTrip ==
    /\ FullyAggregated
    /\ LET m == MergeSparse(scheme, New(scheme), AsSparse(scheme, proof))
       IN proof.bits # {} => m.p.bits = proof.bits /\ m.res.all /\ m.res.increased
=============================================================================
