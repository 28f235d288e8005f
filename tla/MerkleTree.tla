------------------------------ MODULE MerkleTree ------------------------------
(***************************************************************************)
(* The tree from which the tests and scripts take the root and the proofs   *)
(* of a distribution (pvt/helpers/merkleTree.ts), and the library that       *)
(* checks the proofs on chain (MerkleProof.sol), which must agree with it   *)
(* on the order of pairs and on what becomes of an element without a pair.   *)
(* A buffer is a sequence of numbers, compared like bytes; a hash is         *)
(* injective, and no element is a hash.                                     *)
(***************************************************************************)
EXTENDS Integers, Sequences, SequencesExt, FiniteSets, Functions

CONSTANTS
    Elements,       \* numbers
    MaxElements     \* bound: how many elements a tree is made of, repeated ones counted

ASSUME ElementsAssumption == Elements \subseteq Nat /\ MaxElements \in Nat

VARIABLE given      \* the elements that the constructor is given

-----------------------------------------------------------------------------
(* Buffers *)

Missing == <<>>
Leaf(n) == <<n>>
Open == -1
Close == -2

\* Buffer.compare, strictly less.
Before(a, b) ==
    \/ Len(a) < Len(b) /\ a = SubSeq(b, 1, Len(a))
    \/ \E i \in 1..Len(a) : i <= Len(b) /\ SubSeq(a, 1, i - 1) = SubSeq(b, 1, i - 1) /\ a[i] < b[i]

keccak256(buffer) == <<Open>> \o buffer \o <<Close>>

SortAndConcat(a, b) == IF Before(b, a) THEN b \o a ELSE a \o b

-----------------------------------------------------------------------------
(* The tree *)

BufDedup(elements) ==
    LET kept == {i \in DOMAIN elements : i = 1 \/ elements[i - 1] # elements[i]}
    IN [k \in 1..Cardinality(kept) |-> elements[CHOOSE i \in kept : Cardinality({j \in kept : j <= i}) = k]]

Sorted(elements) == BufDedup(SortSeq(elements, Before))

\* An element without a pair goes up as it is.
CombinedHash(first, second) ==
    IF second = Missing THEN first ELSE keccak256(SortAndConcat(first, second))

\* Mutant: it is hashed with itself.
NextLayerDoubled(layer) ==
    [k \in 1..(Len(layer) + 1) \div 2 |->
        CombinedHash(layer[2 * k - 1], IF 2 * k <= Len(layer) THEN layer[2 * k] ELSE layer[2 * k - 1])]
NextLayer(layer) ==
    [k \in 1..(Len(layer) + 1) \div 2 |->
        CombinedHash(layer[2 * k - 1], IF 2 * k <= Len(layer) THEN layer[2 * k] ELSE Missing)]

\* The layers above `elements`, up to that of the root.
Layers(elements) ==
    LET heights == 0..Len(elements)
        layer[h \in heights] == IF h = 0 THEN elements ELSE NextLayer(layer[h - 1])
        top == CHOOSE h \in heights : Len(layer[h]) <= 1 /\ \A k \in 0..h - 1 : Len(layer[k]) > 1
    IN IF elements = <<>> THEN << <<Missing>> >> ELSE [k \in 1..top + 1 |-> layer[k - 1]]

Tree(elements) == Layers(Sorted(SelectSeq(elements, LAMBDA e : e # Missing)))
Root(layers) == Last(layers)[1]

\* Indices count from zero, as in the code.
PairElement(index, layer) ==
    LET pair == IF index % 2 = 0 THEN index + 1 ELSE index - 1
    IN IF pair < Len(layer) THEN <<layer[pair + 1]>> ELSE <<>>

Contained(e, layers) == Contains(layers[1], e)

\* getHexProof of an element of the tree; of any other it throws.
Proof(e, layers) ==
    LET indexIn[h \in DOMAIN layers] ==
            IF h = 1 THEN (CHOOSE i \in DOMAIN layers[1] : layers[1][i] = e) - 1 ELSE indexIn[h - 1] \div 2
    IN FlattenSeq([h \in DOMAIN layers |-> PairElement(indexIn[h], layers[h])])

-----------------------------------------------------------------------------
(* MerkleProof.verify *)

Verify(proof, root, leaf) ==
    FoldLeft(LAMBDA hash, element : keccak256(IF Before(element, hash) THEN element \o hash ELSE hash \o element),
             leaf, proof) = root

-----------------------------------------------------------------------------
Buffers == {Leaf(n) : n \in Elements}

MerkleInit == given = <<>>
GiveElement(e) == Len(given) < MaxElements /\ given' = Append(given, e)
MerkleNext == \E e \in Buffers \cup {Missing} : GiveElement(e)

-----------------------------------------------------------------------------
(* Properties *)

\* In whatever order and however often the elements are given, and wherever one is left
\* without a pair: the tree contains what was given, each has a proof that the library
\* accepts, with its elements' order and root the same as of the set of them, and no
\* proof is accepted for anything else.
ProofsVerify ==
    \A layers \in {Tree(given)} :
        /\ \A e \in Buffers : Contained(e, layers) <=> Contains(given, e)
        /\ \A e \in Range(given) \ {Missing} :
               /\ Verify(Proof(e, layers), Root(layers), e)
               /\ \A other \in Buffers \ {e} : ~Verify(Proof(e, layers), Root(layers), other)
        /\ \A order \in {SetToSeq(Range(given))} : Root(Tree(order)) = Root(layers)
===============================================================================
