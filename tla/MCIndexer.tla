------------------------------ MODULE MCIndexer ------------------------------
EXTENDS Indexer

AllKinds   == {"good", "dropped", "poison"}
CleanKinds == {"good", "dropped"}
=============================================================================
