---------------------------- MODULE MCSectionMeshes ----------------------------
EXTENDS SectionMeshes

(* Two columns with a wall where they meet, and a column of air beside them. *)
Triple == {0, 1, 2}
Walls == {{<<1, 0>>, <<2, 0>>}}
Border == {<<2, 0>>}
Lamp == {<<3, 0>>}
================================================================================
