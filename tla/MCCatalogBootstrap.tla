------------------------- MODULE MCCatalogBootstrap -------------------------
(* Two slots, two releases, two bundled cookbooks of which one is routed.  *)
EXTENDS CatalogBootstrap
=============================================================================
