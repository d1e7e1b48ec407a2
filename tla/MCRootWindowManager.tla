------------------------ MODULE MCRootWindowManager ------------------------
(***************************************************************************)
(* Instances of RootWindowManager for TLC.                                 *)
(***************************************************************************)
EXTENDS RootWindowManager

CONSTANTS win, again, popup, tools, extra

\* The window opens its DevTools, a page in them opens everything else.
DevToolsPopup == [x \in Popup \union Other |-> IF x = tools THEN win ELSE tools]

============================================================================
