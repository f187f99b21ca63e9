------------------------------- MODULE MCTurn -------------------------------
(* Turn with tools that are granted, undeclared, not allowed and dangerous. *)
EXTENDS Turn

CONSTANTS draw, send, post, bash

MCTool == {draw, send, post, bash}
MCDangerousTools == {bash}
MCAllowedTools == {draw, send, bash}
MCDeclared == {NotDeclared, {draw, post}}

\* One tool that is granted and one that is dangerous, and turns that declare none.
MCTwoTools == {draw, bash}
MCDeclaredOnce == {NotDeclared}
=============================================================================
