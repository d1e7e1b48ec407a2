-------------------------- MODULE MCClientHandler --------------------------
(***************************************************************************)
(* Instances of ClientHandler for TLC.                                     *)
(***************************************************************************)
EXTENDS ClientHandler

CONSTANTS b1, b2, p1, p2, main, next, frame, h1, h2

\* Both pages in one process, each in a browser of its own.
SameProcess == [c \in Context |-> p1]
TwoBrowsers == [c \in Context |-> IF c = main THEN b1 ELSE b2]

============================================================================
