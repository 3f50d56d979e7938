----------------------------- MODULE MCAppLock -----------------------------
EXTENDS AppLock
=============================================================================
