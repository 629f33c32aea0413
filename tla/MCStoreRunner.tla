---------------------------- MODULE MCStoreRunner ----------------------------
EXTENDS StoreRunner
=============================================================================
