-------------------------- MODULE MCArchiveCacheLock --------------------------
EXTENDS ArchiveCacheLock
=============================================================================
