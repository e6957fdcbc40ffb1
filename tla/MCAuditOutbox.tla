---------------------------- MODULE MCAuditOutbox ----------------------------
(* Model values and bounds for AuditOutbox.                                 *)
EXTENDS AuditOutbox, TLC

CONSTANTS rm, edit, touch

\* One call of each plan; four events between them.
MCKind == (rm :> "unlink") @@ (edit :> "write") @@ (touch :> "create")

\* PostgreSQL refuses the row of the create.
MCUnstorable == {<<touch, 2>>}

=============================================================================
