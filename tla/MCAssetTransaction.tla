-------------------------- MODULE MCAssetTransaction --------------------------
(* Small instances of AssetTransaction for TLC. *)
EXTENDS AssetTransaction, TLC

CONSTANTS a, b, c, old, version, mine

ThreeAssets == <<a, b, c>>
OneObsolete == <<old>>

\* Nothing is installed yet.
Empty == [dir |-> FALSE, files |-> [f \in Files |-> "none"]]

\* An older release is installed, which did not ship c.
Older == [dir |-> TRUE,
          files |-> [f \in Files |-> CASE f = c -> "none"
                                       [] f = mine -> "user"
                                       [] OTHER -> "old"]]

\* Installs and upgrades interrupted anywhere; or syncs interrupted in the
\* commit, with a user who writes files.
InterruptedOrEdited ==
    {[start |-> s, kinds |-> {"init", "sync"},
      interrupts |-> {"open", "stage", "commit", "write", "rollback-start"},
      faults |-> 2, crashes |-> 2, edits |-> 0] : s \in {Empty, Older}}
    \cup
    {[start |-> Older, kinds |-> {"sync"}, interrupts |-> {"commit"},
      faults |-> 1, crashes |-> 1, edits |-> 1]}
=============================================================================
