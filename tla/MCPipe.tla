------------------------------- MODULE MCPipe -------------------------------
(* A bounded instance of Pipe: a short document and a longer one.          *)
EXTENDS Pipe

CONSTANTS p1, p2, p3,   (* processes *)
          x, y          (* cells     *)

MCProcess == {p1, p2, p3}
MCCell    == {x, y}
MCDocs    == {<<x>>, <<y, x, x>>}
=============================================================================
