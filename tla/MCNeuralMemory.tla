----------------------------- MODULE MCNeuralMemory -----------------------------
(* Instances of NeuralMemory for TLC. *)
EXTENDS NeuralMemory, TLC

\* Ids and contents are interchangeable.
Symmetry == Permutations(Rec) \cup Permutations(Content)

\* Clients send tagged memories whose metadata has no neural_links.
Plain == {NewRow(c, TRUE, FALSE) : c \in Content}
================================================================================
