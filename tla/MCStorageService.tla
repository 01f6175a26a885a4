-------------------------- MODULE MCStorageService --------------------------
EXTENDS StorageService

CONSTANT f1
=============================================================================
