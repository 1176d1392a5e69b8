------------------------------ MODULE MCGuiPanels ------------------------------
(* Instances of GuiPanels for TLC. *)
EXTENDS GuiPanels
================================================================================
