---------------------------- MODULE ToolCatalog ----------------------------
(***************************************************************************)
(* The capability gate of the server: which tool needs which capability,   *)
(* and which tools a reader that announced a set of capabilities may use.  *)
(*                                                                         *)
(* server/domain/entities/tool_catalog.go keeps the table in declaration   *)
(* order; the order only decides how a list is printed, so the answers are *)
(* sets here.                                                              *)
(***************************************************************************)
CONSTANTS
    Tools,          \* the tools of the registry that a capability gates
    Capabilities,   \* the capabilities a bridge can announce
    CapabilityOf    \* the capability each of these tools needs

ASSUME CatalogAssumption == CapabilityOf \in [Tools -> Capabilities]

\* The gated tools the announced capabilities permit.
Allowed(announced) == {t \in Tools : CapabilityOf[t] \in announced}

=============================================================================
