--------------------------- MODULE MCEditApproval ---------------------------
EXTENDS EditApproval, TLC

(* Calls, files and texts are interchangeable: no definition names one. *)
Interchangeable ==
  Permutations(Calls) \cup Permutations(Files) \cup Permutations(Texts)

(* The tools by what their prompts look like: a harmless one of many files, *)
(* and a dangerous one.                                                     *)
Prompting == {"edit", "deleteFile"}
Writing == {"edit", "overwrite", "create"}
=============================================================================
