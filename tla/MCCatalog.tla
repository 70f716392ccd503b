------------------------------ MODULE MCCatalog ------------------------------
EXTENDS Catalog

MCCatalogInit ==
    /\ CatalogInit
    /\ listed = Models /\ policy = [auto |-> TRUE, free |-> FALSE]

MCCatalogSpec == MCCatalogInit /\ [][CatalogNext]_catalogVars /\ CatalogFairness
=============================================================================
