-------------------------- MODULE MCToolChannel --------------------------
(* An instance of ToolChannel for TLC: a command that needs approval and   *)
(* one that does not.                                                      *)
EXTENDS ToolChannel

CONSTANTS c1, c2

TwoCalls == {c1, c2}

Mixed == [c \in TwoCalls |-> IF c = c1 THEN "approval" ELSE "allowed"]

=============================================================================
