------------------------- MODULE MCPluginApprovals -------------------------
EXTENDS PluginApprovals

(* An action that needs approval, one that does not and one denied. *)
Classes == [p \in {"push", "test", "deny"} |->
              CASE p = "test" -> "automatic" [] p = "deny" -> "denied"
                [] OTHER -> "approval_required"]

(* Right, or set back beyond the tolerance. *)
Drifts == {-2, 0}
=============================================================================
