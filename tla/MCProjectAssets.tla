--------------------------- MODULE MCProjectAssets ---------------------------
(* One file for each class of paths in host-assets.json, with two hosts. *)
EXTENDS ProjectAssets

const_Template == {"contract", "guide", "config", "developer", "AGENTS", "CLAUDE", "codexAgent"}
const_SkillCopies == {"agentsSkill", "claudeSkill"}
const_Owners == [a \in const_Template |->
    CASE a = "CLAUDE" -> {"claude"} [] a = "codexAgent" -> {"codex"} [] OTHER -> {}]
const_ReadRoot == [a \in const_SkillCopies |->
    IF a = "claudeSkill" THEN {"claude"} ELSE {"codex"}]
const_Marker == [h \in {"codex", "claude"} |->
    IF h = "codex" THEN {"codexAgent"} ELSE {"CLAUDE", "claudeSkill"}]
const_RuntimePaths == {"contract", "guide", "config", "developer", "version",
                       "movedSkill", "oldFile"}

\* an empty directory, one with a CLAUDE.md of the user's, and a codex project
\* of the first release with all its leftovers
Shipped1(a) == [rel |-> 1, own |-> FALSE,
                word |-> CASE a = "config" -> "zh" [] a = "contract" -> "zh"
                           [] a = "developer" -> "named" [] OTHER -> "none"]
Empty == [a \in AssetClasses |-> Nothing]
const_Starts ==
    {Empty, [Empty EXCEPT !["CLAUDE"] = [Nothing EXCEPT !.own = TRUE]],
     [a \in AssetClasses |-> IF a \in {"CLAUDE", "claudeSkill"} THEN Nothing ELSE Shipped1(a)]}
=============================================================================
