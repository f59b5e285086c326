------------------------------ MODULE MCParts ------------------------------
(***************************************************************************)
(* Six parts of the server that share no state: the rotation of style      *)
(* templates, the model settings, the notification settings, the image     *)
(* files, the saved logos, the start on an older database.  Each behaviour *)
(* is about one, the others stay as they begin.                            *)
(***************************************************************************)
EXTENDS StyleRotation, ModelSettings, LarkSettings, AssetFiles, SavedLogos, Migrations

CONSTANTS a1, a2, b1, b2, c1, c2, p1, p2, e1, k1, k2, k3, v1, v2

VARIABLE part

vars == <<part, rotationVars, modelVars, larkVars, filesVars, savedVars, startVars>>

Init ==
  /\ part \in {"rotation", "models", "lark", "files", "saved", "start"}
  /\ \/ part = "rotation"
     \/ count = [s \in Styles |-> 1] /\ templates = [s \in Styles |-> 1]
  /\ \/ part = "saved"
     \/ call = [k \in Keys |-> [op |-> "save", row |-> k, version |-> v1]]
  /\ \/ part = "start"
     \/ file = Database({}, {}, {})
  /\ RotationInit /\ ModelInit /\ LarkInit /\ FilesInit /\ SavedInit /\ MigrationsInit
  /\ part # "models" => \A s \in Scenes : policy[s] = NoPolicy

Next ==
  /\ UNCHANGED part
  /\ \/ /\ part = "rotation" /\ RotationNext
        /\ UNCHANGED <<modelVars, larkVars, filesVars, savedVars, startVars>>
     \/ /\ part = "models" /\ ModelNext
        /\ UNCHANGED <<rotationVars, larkVars, filesVars, savedVars, startVars>>
     \/ /\ part = "lark" /\ LarkNext
        /\ UNCHANGED <<rotationVars, modelVars, filesVars, savedVars, startVars>>
     \/ /\ part = "files" /\ FilesNext
        /\ UNCHANGED <<rotationVars, modelVars, larkVars, savedVars, startVars>>
     \/ /\ part = "saved" /\ SavedNext
        /\ UNCHANGED <<rotationVars, modelVars, larkVars, filesVars, startVars>>
     \/ /\ part = "start" /\ MigrationsNext
        /\ UNCHANGED <<rotationVars, modelVars, larkVars, filesVars, savedVars>>

Spec == Init /\ [][Next]_vars

Symmetry ==
  Permutations(Batches) \union Permutations(Admins) \union Permutations(Connections)
    \union Permutations(People)

\* Behaviours are followed to the first overlap the properties excuse.
Straight == ~skewed /\ ~crossed /\ ~clashed

=============================================================================
