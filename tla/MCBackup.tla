------------------------------- MODULE MCBackup -------------------------------
EXTENDS Backup
===============================================================================
