-------------------------- MODULE MCModuleRegistry ---------------------------
EXTENDS ModuleRegistry
=============================================================================
