---------------------------- MODULE MCHandleLife ----------------------------
(* Two flows for one handle and two edits of two skills, with room for one *)
(* skill.  Nothing tells flows, edits or skills apart but their names.     *)
EXTENDS HandleLife, TLC
Symmetry == Permutations(Flows) \cup Permutations(Edits) \cup Permutations(SkillIds)
=============================================================================
