-------------------------- MODULE MCModuleDownload --------------------------
\* Three components: one of two modules, an incompatible one, one of a
\* single module.  Four records leave room for one duplicate.
EXTENDS ModuleDownload, TLC
MCMods == (0 :> 2) @@ (1 :> 1) @@ (2 :> 1)
MCCompatible == {0, 2}

\* The update of an Android device: one component, the file update.zip.
MCZipMods == 0 :> 3
=============================================================================
