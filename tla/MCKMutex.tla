------------------------------ MODULE MCKMutex ------------------------------
(* Instances of KMutex: three tasks that contend for one mutex.             *)
EXTENDS KMutex
=============================================================================
