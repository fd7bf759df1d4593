-------------------------- MODULE MCRollbackDrill --------------------------
(* RollbackDrill on a small site. *)
EXTENDS RollbackDrill

\* The reviewed fault version; one that kept the database; one built anew.
ThreeUploads ==
  {[Candidate EXCEPT !.db = FALSE], Candidate, [Rollback EXCEPT !.db = FALSE]}

=============================================================================
