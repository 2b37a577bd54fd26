------------------------------ MODULE MCSyncLog ------------------------------
(***************************************************************************)
(* Small companies for the replication log: three documents, of which a    *)
(* client edits one or two, and one device.                                *)
(***************************************************************************)
EXTENDS SyncLog, TLC

CONSTANTS d1, d2, d3

Edit(d, n) == [id |-> <<d, n>>, doc |-> d, num |-> 0]

OneEdit == {<<Edit(d1, 1)>>}

TwoEdits == {<<Edit(d2, 1), Edit(d1, 1)>>}
=============================================================================
