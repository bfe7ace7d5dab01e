------------------------------ MODULE MCPanels ------------------------------
(* Two providers, one of them the custom one, and lists longer than the rows   *)
(* of the smaller terminal.                                                    *)
EXTENDS PanelProperties

CONSTANTS kimi, custom, m1, m2

MCProviders    == <<kimi, custom>>
MCConnected    == {{}, {custom}}
MCModels       == <<m1, m2>>
MCDefaultModel == (kimi :> m1) @@ (custom :> None)

=============================================================================
