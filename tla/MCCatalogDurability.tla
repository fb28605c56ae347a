------------------------- MODULE MCCatalogDurability -------------------------
(* One snapshot, two processes one after the other, one power failure.       *)
EXTENDS MCCatalogSync, CatalogDurability

MCLost == "lost"
=============================================================================
