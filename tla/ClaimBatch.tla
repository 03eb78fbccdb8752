------------------------------ MODULE ClaimBatch ------------------------------
(***************************************************************************)
(* The Merkle batches of scema-bot-mesh (mesh-runtime), as the Rust side   *)
(* builds and proves them and as BotchainNNMesh verifies them.  A hash is  *)
(* the tuple of what was hashed, so two hashes are equal when their        *)
(* preimages are.                                                          *)
(***************************************************************************)
EXTENDS Naturals, SequencesExt

(* Mutation: a leaf does not bind its index.                               *)
HashLeaf_NoIndex(index, digest) == <<"leaf", digest>>

HashLeaf(index, digest) == <<"leaf", index, digest>>

HashNode(left, right) == <<"node", left, right>>

Level0(claims) == [i \in DOMAIN claims |-> HashLeaf(i - 1, claims[i])]

(* Pairs are hashed; an odd node is promoted, never duplicated.            *)
NextLevel(level) ==
  LET n == Len(level) IN
  [k \in 1 .. (n + 1) \div 2 |->
     IF 2 * k <= n THEN HashNode(level[2 * k - 1], level[2 * k]) ELSE level[n]]

(* The levels of a batch, the last of them its root.                       *)
Levels(claims) ==
  LET level[k \in 0 .. Len(claims) - 1] ==
        IF k = 0 THEN Level0(claims) ELSE NextLevel(level[k - 1])
  IN  level

Root(claims) == Levels(claims)[Len(claims) - 1][1]

(* Where the claim's node is on each level.                                *)
Positions(claims, i) ==
  LET pos[k \in 0 .. Len(claims) - 1] == IF k = 0 THEN i ELSE (pos[k - 1] + 1) \div 2
  IN  pos

(* Mutation: the step of a promoted node names the node before it.         *)
Sibling_OfPromoted(level, p) ==
  IF Len(level) = 1 THEN <<>>
  ELSE IF p % 2 = 0 \/ p = Len(level) THEN << [sibling |-> level[p - 1], left |-> TRUE] >>
  ELSE << [sibling |-> level[p + 1], left |-> FALSE] >>

(* The step up from a node: its sibling, or none where it is promoted.     *)
Sibling(level, p) ==
  IF p % 2 = 0 THEN << [sibling |-> level[p - 1], left |-> TRUE] >>
  ELSE IF p < Len(level) THEN << [sibling |-> level[p + 1], left |-> FALSE] >>
  ELSE <<>>

(* ClaimBatch::proof: the siblings from the leaf up.                       *)
Proof(claims, i) ==
  LET levels == Levels(claims)
      pos == Positions(claims, i)
  IN  FlattenSeq([k \in 1 .. Len(claims) |-> Sibling(levels[k - 1], pos[k - 1])])

Climb(node, step) ==
  IF step.left THEN HashNode(step.sibling, node) ELSE HashNode(node, step.sibling)

(* verifyInclusion of the contract.                                        *)
Climbed(leaf, steps) ==
  LET node[k \in 0 .. Len(steps)] == IF k = 0 THEN leaf ELSE Climb(node[k - 1], steps[k])
  IN  node[Len(steps)]

VerifyInclusion(root, digest, index, steps) ==
  Climbed(HashLeaf(index, digest), steps) = root
=============================================================================
