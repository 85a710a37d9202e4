-------------------------- MODULE MCVoiceConfirmation --------------------------
(* Instances of VoiceConfirmation for TLC. *)
EXTENDS VoiceConfirmation, TLC

\* Turns and records are interchangeable; used by safety runs only.
Symmetry == Permutations(Turn) \cup Permutations(Record)

================================================================================
