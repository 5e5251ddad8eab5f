---------------------------- MODULE MCWorkQueue ----------------------------
(***************************************************************************)
(* Instances of the work queue for TLC.                                    *)
(***************************************************************************)
EXTENDS WorkQueueProperties

CONSTANTS eng, eng2, arch, ver,   \* an engineer that also creates, another, a steward, a verifier
          arc, leaf, seed         \* an item, one it brackets, one that must come before that

CreatedByEng == [w \in Items |-> eng]
EngWorksLeaf == [w \in Items |-> IF w = leaf THEN {eng} ELSE {ver}]
EngineersMayClaim == [w \in Items |-> {eng, eng2}]
ArcBracketsLeaf == [w \in Items |-> IF w = arc THEN {leaf} ELSE {}]
LeafAfterSeed == [w \in Items |-> IF w = leaf THEN {seed} ELSE {}]
ReviewWanted == [w \in Items |-> "review"]
EachItsOwn == [w \in Items |-> IF w = arc THEN "any" ELSE IF w = leaf THEN "nothing" ELSE "review"]
NoEdges == [w \in Items |-> {}]

=============================================================================
