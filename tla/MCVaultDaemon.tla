---------------------------- MODULE MCVaultDaemon ----------------------------
EXTENDS VaultDaemon
=============================================================================
