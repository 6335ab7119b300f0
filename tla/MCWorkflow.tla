----------------------------- MODULE MCWorkflow -----------------------------
EXTENDS Workflow, TLC

CONSTANTS depositor, cataloger, reviewer, admin

MCUsers == {depositor, cataloger, reviewer, admin}

\* One role each; the depositor owns the record and holds no other role.
MCAssignments ==
    { [user |-> depositor, role |-> "depositor", inst |-> Inst],
      [user |-> cataloger, role |-> "cataloger", inst |-> Inst],
      [user |-> reviewer, role |-> "reviewer", inst |-> Inst],
      [user |-> admin, role |-> "institution_admin", inst |-> Inst] }

Symmetry == Permutations(Workers)

=============================================================================
