\* Installs and upgrades that fail or are killed anywhere; and syncs that are repeated
\* until they get through, while the user writes files.
SPECIFICATION FairSpec
CONSTANTS
    a = a  b = b  c = c  old = old  version = version  mine = mine
    Assets <- ThreeAssets
    Obsolete <- OneObsolete
    Version = version
    Protected = {b}
    Bystanders = {mine}
    Settings <- InterruptedOrEdited
INVARIANT AllOrNothing
PROPERTIES VersionTells RollbackKeepsUserFiles EventuallyAllNew
CHECK_DEADLOCK FALSE
