------------------------------ MODULE MCMutex ------------------------------
EXTENDS Mutex

============================================================================
