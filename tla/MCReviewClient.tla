--------------------------- MODULE MCReviewClient ---------------------------
(***************************************************************************)
(* Instances of ReviewClient for TLC: one finding, one document missing,   *)
(* a justification of forty characters, and the requests acknowledged.     *)
(***************************************************************************)
EXTENDS ReviewClient

MCNormal == [r \in RawTypes |-> r]

Filling(just, docs, ack) ==
  [just |-> just, docs |-> docs, unlisted |-> FALSE, basis |-> "MIXED", ack |-> ack]

MCFillings == {Filling("from40", {"INVOICE"}, TRUE)}
=============================================================================
