-------------------------- MODULE MCLspDocumentSync --------------------------
(* LspDocumentSync with a server that is there from the start and a companion. *)
EXTENDS LspDocumentSync

Budget(edits, crashes, faults, starts) ==
    [edits |-> edits, crashes |-> crashes, faults |-> faults, starts |-> starts]

(* One server through everything; two without a crash; two without a second edit. *)
Mixed == {Budget(2, 1, 1, 0), Budget(2, 0, 1, 1), Budget(1, 1, 1, 1)}
=============================================================================
